---- MODULE Spec2Model ----
(***************************************************************************)
(* Model of the Next.js API routes and pages of Tiktok_Yt_Scrap:           *)
(*   - the moment selectors (detectBestMoments of process-video,           *)
(*     analyzeYouTubeVideo, VideoProcessor.detectBestMoments),             *)
(*   - the process-video and download-video handlers,                      *)
(*   - the in-memory session store with its setTimeout eviction,           *)
(*   - VideoProcessor.compileVideo and the files VideoProcessor writes,    *)
(*   - the pages in the browser: the variants of Home (polling effect,     *)
(*     poller ref, simulated progress) and TimelineEditor.                 *)
(*                                                                         *)
(* Times are milliseconds (Date.now()), durations are whole seconds.       *)
(* Math.random() is a stream of draws k/RandDen, k \in RandomDraws; the    *)
(* i-th call of a handler reads the i-th element of the stream.  Real      *)
(* arithmetic of the selectors is done exactly, on numerators over a       *)
(* common denominator; where the exact value is a whole number, IEEE       *)
(* rounding can make Math.floor in the code one less (600 * (11 / 15) is   *)
(* 439.99...), which moves a start by one second inside its clamp.         *)
(***************************************************************************)
EXTENDS Integers, Sequences, FiniteSets, TLC

VARIABLES
    sel,           \* selector run: the call made and the value it returned
    now,           \* Date.now()
    sessionStore,  \* the Map of session-store.ts: sessionId -> data
    timers,        \* pending setTimeout callbacks of createSession
    nextTimer,     \* handle of the next setTimeout
    created,       \* history: the createSession calls made so far
    dl,            \* download-video requests: position, body, response
    compileLog,    \* history: begin/end of every artifact generation
    lastOp,        \* history: the last store operation executed
    detect,        \* detect-video requests: urls, entries resolved, response
    vp,            \* VideoProcessor.detectBestMoments calls: position, arguments
    files,         \* history: the files written by VideoProcessor calls
    ui             \* the page or component in the browser: its React state

vars == <<sel, now, sessionStore, timers, nextTimer, created, dl, compileLog, lastOp,
          detect, vp, files, ui>>

storeVars == <<now, sessionStore, timers, nextTimer, created, dl, compileLog, lastOp,
               detect, vp, files, ui>>

----------------------------------------------------------------------------
(* Bounds of the model *)

\* Math.random() yields k/RandDen
RandDen == 100

\* the random stream repeats after RandPeriod calls
RandPeriod == 4

\* videos per process-video request
MaxVideos == 2

\* requests received: createSession calls plus download-video requests
MaxRequests == 3

\* createSession calls made on the store directly
MaxApiCreates == 2

\* the clock is followed for MaxHalfHours half hours, and for MaxMs single
\* milliseconds inside each of them
MaxHalfHours == 2

MaxMs == 1

\* requests received by detect-video and process-video together, when the
\* two routes are followed side by side
MaxApiCalls == 2

\* VideoProcessor.detectBestMoments calls made
MaxVPCalls == 2

\* clicks of the user on a page with the polling effect
MaxUiEvents == 3

\* clicks of the user on the page with the poller ref
MaxPRClicks == 4

\* interval callbacks run on one page
MaxPolls == 1

\* callbacks of the simulated-progress interval run on one page
MaxTicks == 2

\* Date.now() when the server starts
StartTime == 1000

RandomDraws == {0, RandDen \div 2, RandDen - 1}

RandomStreams == [0..(RandPeriod - 1) -> RandomDraws]

\* the c-th call of Math.random() (c counted from 0)
Rand(rnd, c) == rnd[c % RandPeriod]

----------------------------------------------------------------------------
(* Arithmetic helpers *)

Min(a, b) == IF a <= b THEN a ELSE b

Max(a, b) == IF a >= b THEN a ELSE b

\* Math.ceil(a / b) for b > 0 (\div rounds towards minus infinity)
CeilDiv(a, b) == (a + b - 1) \div b

\* Math.ceil(duration / 4.5) = ceil(2 * duration / 9)
NumClips(duration) == CeilDiv(2 * duration, 9)

RECURSIVE SumSeq(_)
SumSeq(s) == IF s = <<>> THEN 0 ELSE Head(s) + SumSeq(Tail(s))

\* Array.prototype.slice(0, n) without the truncation
SliceAll(s, n) == s

\* Array.prototype.slice(0, n); a negative n counts from the end
Slice(s, n) ==
    IF n >= 0 THEN SubSeq(s, 1, Min(n, Len(s)))
    ELSE SubSeq(s, 1, Max(Len(s) + n, 0))

\* (a, b) => b.score - a.score
ScoreDesc(a, b) == a.score > b.score

\* (a, b) => a.order - b.order
OrderAsc(a, b) == a.order < b.order

\* Array.prototype.sort is stable: an element is inserted behind the elements
\* that compare equal to it, so equal elements keep their original order.
RECURSIVE InsertByScore(_, _)
InsertByScore(x, s) ==
    IF s = <<>> THEN <<x>>
    ELSE IF ScoreDesc(x, Head(s)) THEN <<x>> \o s
    ELSE <<Head(s)>> \o InsertByScore(x, Tail(s))

\* sort((a, b) => b.score - a.score)
RECURSIVE SortByScoreDesc(_)
SortByScoreDesc(s) ==
    IF s = <<>> THEN <<>>
    ELSE InsertByScore(s[Len(s)], SortByScoreDesc(SubSeq(s, 1, Len(s) - 1)))

RECURSIVE InsertByOrder(_, _)
InsertByOrder(x, s) ==
    IF s = <<>> THEN <<x>>
    ELSE IF OrderAsc(x, Head(s)) THEN <<x>> \o s
    ELSE <<Head(s)>> \o InsertByOrder(x, Tail(s))

\* sort((a, b) => a.order - b.order)
RECURSIVE SortByOrderAsc(_)
SortByOrderAsc(s) ==
    IF s = <<>> THEN <<>>
    ELSE InsertByOrder(s[Len(s)], SortByOrderAsc(SubSeq(s, 1, Len(s) - 1)))

----------------------------------------------------------------------------
(* process-video: detectBestMoments *)

Titles == <<"Peak engagement", "Viral transition", "Key highlight", "Audience hook",
            "Entertainment spike", "Dynamic moment", "Reaction peak">>

generateMomentTitle(index) == Titles[(index % Len(Titles)) + 1]

\* Math.floor(baseTimestamp + variance) with
\*   baseTimestamp = videoDuration * (i + 1) / (numClips + 1)
\*   variance      = (k / RandDen - 0.5) * videoDuration * 0.1
FloorJittered(videoDuration, numClips, i, k) ==
    (videoDuration * ((i + 1) * 20 * RandDen + (2 * k - RandDen) * (numClips + 1)))
        \div (20 * RandDen * (numClips + 1))

\* MomentStart without the upper clamp Math.min(..., Math.max(videoDuration - 5, 0))
MomentStartUnclamped(videoDuration, numClips, i, k) ==
    Max(0, FloorJittered(videoDuration, numClips, i, k))

\* Math.floor(timestamp): the clamp bounds 0 and max(videoDuration - 5, 0)
\* are integers, so the floor commutes with the clamp.
MomentStart(videoDuration, numClips, i, k) ==
    Max(0, Min(FloorJittered(videoDuration, numClips, i, k), Max(videoDuration - 5, 0)))

\* DetectMoment without Math.min(..., videoDuration) on `end`
DetectMomentNoEndClamp(videoDuration, numClips, i, rnd, c0) ==
    LET start == MomentStart(videoDuration, numClips, i, Rand(rnd, c0 + 3 * i))
    IN  [ timestamp       |-> <<start \div 60, start % 60>>,
          duration        |-> "4-5s",
          start           |-> start,
          end             |-> start + 5,
          title           |-> generateMomentTitle(i),
          score           |-> 4 * RandDen + Rand(rnd, c0 + 3 * i + 1),
          engagementLevel |-> IF 2 * Rand(rnd, c0 + 3 * i + 2) > RandDen
                              THEN "High" ELSE "Medium" ]

\* the i-th moment; c0 is the number of Math.random() calls made before the call
DetectMoment(videoDuration, numClips, i, rnd, c0) ==
    LET start == MomentStart(videoDuration, numClips, i, Rand(rnd, c0 + 3 * i))
    IN  [ timestamp       |-> <<start \div 60, start % 60>>,
          duration        |-> "4-5s",
          start           |-> start,
          end             |-> Min(start + 5, videoDuration),
          title           |-> generateMomentTitle(i),
          score           |-> 4 * RandDen + Rand(rnd, c0 + 3 * i + 1),
          engagementLevel |-> IF 2 * Rand(rnd, c0 + 3 * i + 2) > RandDen
                              THEN "High" ELSE "Medium" ]

\* score is kept as the numerator of (0.80 + r * 0.2) over 5 * RandDen
detectBestMoments(videoDuration, outputDuration, rnd, c0) ==
    LET numClips == NumClips(outputDuration)
    IN  [ j \in 1..Max(numClips, 0) |->
            DetectMoment(videoDuration, numClips, j - 1, rnd, c0) ]

----------------------------------------------------------------------------
(* process-video: POST *)

\* a property of a JSON object that may be absent
Field(obj, name) == IF name \in DOMAIN obj THEN obj[name] ELSE 0

\* parseInt(settings?.duration) || 30 : absent, NaN and 0 give 30.  The body
\* carries the duration as the integer parseInt reads from it.
ParseOutputDuration(settings) ==
    IF Field(settings, "duration") = 0 THEN 30 ELSE settings.duration

\* video.duration || 600
VideoDurationOrDefault(video) ==
    IF Field(video, "duration") = 0 THEN 600 ELSE video.duration

\* settings?.quality || '720p'
QualityOrDefault(settings) ==
    IF "quality" \in DOMAIN settings THEN settings.quality ELSE "720p"

\* moments.map((moment, idx) => ({...moment, videoIndex, videoTitle, videoId,
\*                                order: allMoments.length + idx + 1}))
WithMetadata(moments, video, videoIndex, allLen) ==
    [ idx \in 1..Len(moments) |->
        [ timestamp       |-> moments[idx].timestamp,
          duration        |-> moments[idx].duration,
          start           |-> moments[idx].start,
          end             |-> moments[idx].end,
          title           |-> moments[idx].title,
          score           |-> moments[idx].score,
          engagementLevel |-> moments[idx].engagementLevel,
          videoIndex      |-> videoIndex,
          videoTitle      |-> video.title,
          videoId         |-> video.id,
          order           |-> allLen + idx ] ]

\* the loop over the videos: allMoments after the first n videos.  Every
\* moment costs three Math.random() calls.
RECURSIVE AllMoments(_, _, _, _)
AllMoments(videos, outputDuration, rnd, n) ==
    IF n = 0 THEN <<>>
    ELSE LET before == AllMoments(videos, outputDuration, rnd, n - 1)
             video  == videos[n]
             moments == detectBestMoments(VideoDurationOrDefault(video),
                                          outputDuration, rnd, 3 * Len(before))
         IN  before \o WithMetadata(moments, video, n - 1, Len(before))

\* TopMoments without the sort by score: the first targetClipCount candidates
TopMomentsUnsorted(allMoments, outputDuration) ==
    SortByOrderAsc(Slice(allMoments, NumClips(outputDuration)))

\* allMoments.sort(score desc).slice(0, targetClipCount).sort(order asc)
TopMoments(allMoments, outputDuration) ==
    SortByOrderAsc(Slice(SortByScoreDesc(allMoments), NumClips(outputDuration)))

\* topMoments of a request body {videos, settings}
SelectMoments(videos, settings, rnd) ==
    LET outputDuration == ParseOutputDuration(settings)
    IN  TopMoments(AllMoments(videos, outputDuration, rnd, Len(videos)), outputDuration)

\* the sessionData object handed to createSession
SessionData(videos, settings, rnd, at) ==
    [ moments     |-> SelectMoments(videos, settings, rnd),
      videosCount |-> Len(videos),
      quality     |-> QualityOrDefault(settings),
      duration    |-> ParseOutputDuration(settings),
      createdAt   |-> at ]

----------------------------------------------------------------------------
(* youtube-analyzer: analyzeYouTubeVideo *)

AnalyzerTitles == <<"Peak engagement", "Viral transition", "Key highlight",
                    "Audience hook", "Entertainment spike", "Dynamic moment",
                    "Reaction peak", "High energy section", "Story climax",
                    "Laugh moment">>

\* score is the numerator of (0.75 + r * 0.25) over 4 * RandDen
getEngagementLevel(score) ==
    IF 10 * score >= 36 * RandDen THEN "Very High"
    ELSE IF 10 * score >= 32 * RandDen THEN "High"
    ELSE IF 10 * score >= 28 * RandDen THEN "Medium"
    ELSE "Good"

\* Math.floor(baseTimestamp + variance), variance = (r - 0.5) * videoDuration * 0.15
AnalyzerFloorJittered(videoDuration, numClips, i, k) ==
    (videoDuration * ((i + 1) * 40 * RandDen + 3 * (2 * k - RandDen) * (numClips + 1)))
        \div (40 * RandDen * (numClips + 1))

AnalyzerMoment(videoDuration, numClips, i, rnd) ==
    LET start == Max(0, Min(AnalyzerFloorJittered(videoDuration, numClips, i,
                                                  Rand(rnd, 2 * i)),
                            Max(videoDuration - 5, 0)))
        engagementScore == 3 * RandDen + Rand(rnd, 2 * i + 1)
    IN  [ timestamp       |-> <<start \div 60, start % 60>>,
          start           |-> start,
          end             |-> Min(start + 5, videoDuration),
          duration        |-> "4-5s",
          title           |-> AnalyzerTitles[(i % Len(AnalyzerTitles)) + 1],
          score           |-> engagementScore,
          engagementLevel |-> getEngagementLevel(engagementScore) ]

analyzeYouTubeVideo(videoData, targetDuration, rnd) ==
    LET videoDuration == VideoDurationOrDefault(videoData)
        numClips == NumClips(targetDuration)
    IN  SortByScoreDesc(
               [ j \in 1..Max(numClips, 0) |->
                   AnalyzerMoment(videoDuration, numClips, j - 1, rnd) ])

----------------------------------------------------------------------------
(* VideoProcessor *)

\* getVideoDuration: Math.floor(parseFloat(stdout)); ffprobe's output is
\* read in tenths of a second
getVideoDuration(probedTenths) == probedTenths \div 10

\* start and end of a VideoProcessor moment are not rounded: they are kept
\* in units of 1 / VPUnit seconds
VPUnit == 20 * RandDen

VPMoment(videoDuration, targetClipCount, i, rnd, videoTitle) ==
    LET baseStart == (videoDuration * (i + 1)) \div (targetClipCount + 1)
        variance  == videoDuration * (2 * Rand(rnd, 2 * i) - RandDen)
        start     == Max(0, Min(baseStart * VPUnit + variance,
                                (videoDuration - 5) * VPUnit))
    IN  [ start       |-> start,
          end         |-> Min(start + 5 * VPUnit, videoDuration * VPUnit),
          score       |-> 4 * RandDen + Rand(rnd, 2 * i + 1),
          description |-> <<"Moment", i + 1, "from", videoTitle>> ]

VPdetectBestMoments(probedTenths, targetDuration, videoTitle, rnd) ==
    LET videoDuration == getVideoDuration(probedTenths)
        targetClipCount == NumClips(targetDuration)
    IN  Slice(SortByScoreDesc(
                     [ j \in 1..Max(targetClipCount, 0) |->
                         VPMoment(videoDuration, targetClipCount, j - 1, rnd, videoTitle) ]),
              targetClipCount)

----------------------------------------------------------------------------
(* Request bodies and selector arguments explored *)

\* videoDuration / targetDuration arguments of the selectors
ArgDurations == {-5, 1, 3, 5, 7, 12, 60, 600}

ArgTargets == {-5, 0, 1, 4, 5, 30, 60, 90}

\* ffprobe outputs, in tenths of a second
ProbedTenths == {4, 10, 35, 50, 72, 120, 6000}

\* entries of the `videos` array of a process-video body
BodyVideos ==
    { [id |-> "a", title |-> "A", duration |-> 3],
      [id |-> "c", title |-> "C", duration |-> 600],
      [id |-> "d", title |-> "D", duration |-> 0],
      [id |-> "e", title |-> "Error loading video"] }

BodyVideoLists == UNION { [1..n -> BodyVideos] : n \in 1..MaxVideos }

\* `settings` objects of a process-video body
BodySettings ==
    { [quality |-> "1080p"],
      [duration |-> 4, quality |-> "480p"],
      [duration |-> 30],
      [duration |-> 60, quality |-> "720p"],
      [duration |-> -5, quality |-> "720p"] }

----------------------------------------------------------------------------
(* The selectors as single calls *)

\* no call made yet; rnd is the stream Math.random() will yield
NoCall(rnd) == [fn |-> "none", rnd |-> rnd]

SelDetect ==
    /\ sel.fn = "none"
    /\ \E videoDuration \in ArgDurations, outputDuration \in ArgTargets :
         sel' = [ fn |-> "detectBestMoments", rnd |-> sel.rnd,
                  videoDuration |-> videoDuration,
                  targetDuration |-> outputDuration,
                  out |-> detectBestMoments(videoDuration, outputDuration, sel.rnd, 0) ]
    /\ UNCHANGED storeVars

SelAnalyze ==
    /\ sel.fn = "none"
    /\ \E videoData \in BodyVideos, targetDuration \in ArgTargets :
         sel' = [ fn |-> "analyzeYouTubeVideo", rnd |-> sel.rnd,
                  videoDuration |-> VideoDurationOrDefault(videoData),
                  targetDuration |-> targetDuration,
                  out |-> analyzeYouTubeVideo(videoData, targetDuration, sel.rnd) ]
    /\ UNCHANGED storeVars

SelVideoProcessor ==
    /\ sel.fn = "none"
    /\ \E probed \in ProbedTenths, targetDuration \in ArgTargets :
         sel' = [ fn |-> "VideoProcessor.detectBestMoments", rnd |-> sel.rnd,
                  videoDuration |-> getVideoDuration(probed),
                  targetDuration |-> targetDuration,
                  out |-> VPdetectBestMoments(probed, targetDuration, "T", sel.rnd) ]
    /\ UNCHANGED storeVars

SelProcessVideo ==
    /\ sel.fn = "none"
    /\ \E videos \in BodyVideoLists, settings \in BodySettings :
         sel' = [ fn |-> "process-video", rnd |-> sel.rnd,
                  videos |-> videos,
                  targetDuration |-> ParseOutputDuration(settings),
                  candidates |-> AllMoments(videos, ParseOutputDuration(settings),
                                            sel.rnd, Len(videos)),
                  out |-> SelectMoments(videos, settings, sel.rnd) ]
    /\ UNCHANGED storeVars

SelNext == SelDetect \/ SelAnalyze \/ SelVideoProcessor \/ SelProcessVideo

\* no page is open
NoPage == [page |-> "none"]

StoreInit ==
    /\ now = StartTime
    /\ sessionStore = <<>>
    /\ timers = {}
    /\ nextTimer = 1
    /\ created = <<>>
    /\ dl = <<>>
    /\ compileLog = <<>>
    /\ lastOp = [op |-> "none"]
    /\ detect = <<>>
    /\ vp = <<>>
    /\ files = <<>>

SelInit ==
    /\ \E rnd \in RandomStreams : sel = NoCall(rnd)
    /\ StoreInit
    /\ ui = NoPage

SpecSel == SelInit /\ [][SelNext]_vars

----------------------------------------------------------------------------
(* session-store: the Map, createSession, getSession, deleteSession *)

\* setTimeout(..., 60 * 60 * 1000)
TTL == 60 * 60 * 1000

\* "Nous gardons la session ouverte pendant 30 minutes"
HalfHour == 30 * 60 * 1000

\* Number.prototype.toString(): the decimal digits of n >= 0
RECURSIVE NumberToString(_)
NumberToString(n) == IF n < 10 THEN <<n>> ELSE Append(NumberToString(n \div 10), n % 10)

\* the value of Map.get for a missing key
Undefined == [undefined |-> TRUE]

MapSet(m, k, v) == [x \in (DOMAIN m) \cup {k} |-> IF x = k THEN v ELSE m[x]]

\* Map.prototype.delete with every other entry removed as well
MapDeleteAll(m, k) == <<>>

MapDelete(m, k) == [x \in (DOMAIN m) \ {k} |-> m[x]]

getSession(sessionId) ==
    IF sessionId \in DOMAIN sessionStore THEN sessionStore[sessionId] ELSE Undefined

\* Map.prototype.delete never throws
deleteSession(sessionId) ==
    sessionStore' = MapDelete(sessionStore, sessionId)

\* history: a delete or an expiry of sessionId ends the life of every
\* session created under that id so far
Ended(sessionId) ==
    [ i \in 1..Len(created) |->
        IF created[i].id = sessionId
        THEN [created[i] EXCEPT !.live = FALSE] ELSE created[i] ]

\* the id createSession would return now
NewSessionId == NumberToString(now)

createSession(data) ==
    LET sessionId == NewSessionId
    IN  /\ sessionStore' = MapSet(sessionStore, sessionId, data)
        /\ timers' = timers \cup {[handle |-> nextTimer, id |-> sessionId, due |-> now + TTL]}
        /\ nextTimer' = nextTimer + 1
        /\ created' = Append(created, [id |-> sessionId, data |-> data,
                                       at |-> now, live |-> TRUE])

\* the callback of createSession's setTimeout; Node runs it no earlier than
\* the delay asked for
TimerFire(t) ==
    /\ t \in timers
    /\ now >= t.due
    /\ deleteSession(t.id)
    /\ timers' = timers \ {t}
    /\ created' = Ended(t.id)
    /\ lastOp' = [op |-> "timer", id |-> t.id, existed |-> t.id \in DOMAIN sessionStore]
    /\ UNCHANGED <<sel, vp, files, ui, detect, now, nextTimer, dl, compileLog>>

TickSteps == {1, HalfHour}

\* time passes
Tick(d) ==
    /\ d \in TickSteps
    /\ now + d <= StartTime + MaxHalfHours * HalfHour + MaxMs
    /\ d = 1 => (now - StartTime) % HalfHour < MaxMs
    /\ now' = now + d
    /\ UNCHANGED <<sel, vp, files, ui, detect, sessionStore, timers, nextTimer, created, dl, compileLog, lastOp>>

----------------------------------------------------------------------------
(* The store called directly *)

Payloads == {[payload |-> "p"], [payload |-> "q"]}

\* session ids a caller may present: those handed out, and one that never was
BogusId == <<9>>

KnownIds == {created[i].id : i \in 1..Len(created)} \cup {BogusId}

ApiCreate(data) ==
    /\ Len(created) < MaxApiCreates
    /\ createSession(data)
    /\ lastOp' = [op |-> "create", id |-> NewSessionId]
    /\ UNCHANGED <<sel, vp, files, ui, detect, now, dl, compileLog>>

ApiGet(sessionId) ==
    /\ lastOp' = [op |-> "get", id |-> sessionId,
                  found |-> getSession(sessionId) # Undefined]
    /\ UNCHANGED <<sel, vp, files, ui, detect, now, sessionStore, timers, nextTimer, created, dl, compileLog>>

ApiDelete(sessionId) ==
    /\ deleteSession(sessionId)
    /\ created' = Ended(sessionId)
    /\ lastOp' = [op |-> "delete", id |-> sessionId,
                  existed |-> sessionId \in DOMAIN sessionStore]
    /\ UNCHANGED <<sel, vp, files, ui, detect, now, timers, nextTimer, dl, compileLog>>

ZeroStream == [c \in 0..(RandPeriod - 1) |-> 0]

StoreNext ==
    \/ \E data \in Payloads : ApiCreate(data)
    \/ \E sessionId \in KnownIds : ApiGet(sessionId)
    \/ \E sessionId \in KnownIds : ApiDelete(sessionId)
    \/ \E t \in timers : TimerFire(t)
    \/ \E d \in TickSteps : Tick(d)

\* the server with no page open
ServerInit == sel = NoCall(ZeroStream) /\ StoreInit

Init == ServerInit /\ ui = NoPage

SpecStore == Init /\ [][StoreNext]_vars

----------------------------------------------------------------------------
(* process-video and download-video handlers *)

\* well-formed process-video bodies
ProcessBodies ==
    { [videos |-> <<[id |-> "c", title |-> "C", duration |-> 600]>>,
       settings |-> [duration |-> 4, quality |-> "1080p"]],
      [videos |-> <<[id |-> "a", title |-> "A", duration |-> 3]>>,
       settings |-> [duration |-> 9]] }

\* bodies process-video rejects; a body without `videos` stands for one
\* whose `videos` is not an array
BadProcessBodies ==
    { [settings |-> [duration |-> 4]],
      [videos |-> <<>>, settings |-> [duration |-> 4]] }

\* NoVideosProvided with `videos.length === 0` left out
NoVideosProvidedArrayOnly(body) == "videos" \notin DOMAIN body

\* !Array.isArray(videos) || videos.length === 0
NoVideosProvided(body) ==
    "videos" \notin DOMAIN body \/ Len(body.videos) = 0

\* POST of process-video.  Everything after `await request.json()` runs
\* without another await: the handler is one step.
ProcessVideo(body, rnd) ==
    /\ Len(created) + Len(dl) < MaxRequests
    /\ IF NoVideosProvided(body)
       THEN /\ lastOp' = [op |-> "process-video", body |-> body, status |-> 400,
                          error |-> "No videos provided"]
            /\ UNCHANGED <<sessionStore, timers, nextTimer, created>>
       ELSE /\ createSession(SessionData(body.videos, body.settings, rnd, now))
            /\ lastOp' = [op |-> "process-video", body |-> body, status |-> 200,
                          id |-> NewSessionId,
                          moments |-> SelectMoments(body.videos, body.settings, rnd)]
    /\ UNCHANGED <<sel, vp, files, ui, detect, now, dl, compileLog>>

\* a null element of a moments array
Null == [null |-> TRUE]

\* moments.map(m => `[${m.order}] ...`) throws a TypeError on a null element
GenerateThrows(moments) == \E i \in 1..Len(moments) : moments[i] = Null

\* sessionData.moments || []
MomentsOrEmpty(sessionData) ==
    IF "moments" \in DOMAIN sessionData THEN sessionData.moments ELSE <<>>

\* a property of a moment that may be undefined
MomentField(m, name) == IF name \in DOMAIN m THEN m[name] ELSE "undefined"

\* generateMP4WithMoments with the lines written last moment first
generateMP4Reversed(moments) ==
    [ ftyp |-> "isom",
      mdat |-> [ i \in 1..Len(moments) |->
                   <<MomentField(moments[Len(moments) + 1 - i], "order"),
                     MomentField(moments[Len(moments) + 1 - i], "title"),
                     MomentField(moments[Len(moments) + 1 - i], "timestamp")>> ] ]

\* generateMP4WithMoments: the ftyp header, then an mdat box whose content
\* is one line `[order] title @ timestamp` per moment, in list order
generateMP4WithMoments(moments) ==
    [ ftyp |-> "isom",
      mdat |-> [ i \in 1..Len(moments) |->
                   <<MomentField(moments[i], "order"), MomentField(moments[i], "title"),
                     MomentField(moments[i], "timestamp")>> ] ]

NoResponse == [status |-> 0]

\* download-video bodies that carry the id of a session handed out
DownloadBodies ==
    { [sessionId |-> created[i].id, quality |-> "720p"] : i \in 1..Len(created) }

\* download-video bodies with an id never handed out, without an id, and
\* one that request.json() rejects
BadDownloadBodies ==
    { [sessionId |-> BogusId, quality |-> "720p"], [quality |-> "720p"],
      [malformed |-> TRUE] }

\* a download-video request reaches the server and waits in
\* `await request.json()`
DownloadArrive(body) ==
    /\ Len(created) + Len(dl) < MaxRequests
    /\ dl' = Append(dl, [pc |-> "json", body |-> body, resp |-> NoResponse])
    /\ UNCHANGED <<sel, vp, files, ui, detect, now, sessionStore, timers, nextTimer, created, compileLog, lastOp>>

\* history kept with a response: its rank among the responses, and the
\* requests that were still waiting when it was sent
Respond(r, resp) ==
    dl' = [dl EXCEPT ![r] =
             [ pc      |-> "done",
               body    |-> dl[r].body,
               resp    |-> resp,
               seq     |-> Cardinality({q \in 1..Len(dl) : dl[q].pc = "done"}) + 1,
               pending |-> {q \in 1..Len(dl) : q # r /\ dl[q].pc = "json"} ]]

\* a download-video handler that awaits between getSession and deleteSession
\* (as VideoProcessor.compileVideo would make it): the artifact is generated
\* in a step of its own
DownloadVideoAwaiting(r) ==
    /\ r \in 1..Len(dl)
    /\ \/ /\ dl[r].pc = "json"
          /\ "sessionId" \in DOMAIN dl[r].body
          /\ dl[r].body.sessionId \in DOMAIN sessionStore
          /\ dl' = [dl EXCEPT ![r].pc = "compiling"]
          /\ compileLog' = Append(compileLog,
                 [ev |-> "begin", req |-> r, id |-> dl[r].body.sessionId,
                  moments |-> getSession(dl[r].body.sessionId).moments])
          /\ UNCHANGED <<sessionStore, created, lastOp>>
       \/ /\ dl[r].pc = "compiling"
          /\ deleteSession(dl[r].body.sessionId)
          /\ created' = Ended(dl[r].body.sessionId)
          /\ compileLog' = Append(compileLog,
                 [ev |-> "end", req |-> r, id |-> dl[r].body.sessionId])
          /\ Respond(r, [status |-> 200, id |-> dl[r].body.sessionId, at |-> now,
                         artifact |-> generateMP4WithMoments(
                             compileLog[CHOOSE i \in 1..Len(compileLog) :
                                 compileLog[i].ev = "begin" /\ compileLog[i].req = r].moments)])
          /\ lastOp' = [op |-> "delete", id |-> dl[r].body.sessionId,
                        existed |-> dl[r].body.sessionId \in DOMAIN sessionStore]
    /\ UNCHANGED <<sel, vp, files, ui, detect, now, timers, nextTimer>>

\* a download-video handler that calls deleteSession before it generates
\* the artifact
DownloadVideoDeleteFirst(r) ==
    /\ r \in 1..Len(dl)
    /\ dl[r].pc = "json"
    /\ LET body == dl[r].body
           sessionId == Field(body, "sessionId")
       IN  IF "malformed" \in DOMAIN body
           THEN /\ Respond(r, [status |-> 500, error |-> "Failed to generate download"])
                /\ UNCHANGED <<sessionStore, created, compileLog, lastOp>>
           ELSE IF "sessionId" \notin DOMAIN body \/ sessionId = <<>>
           THEN /\ Respond(r, [status |-> 400, error |-> "No session ID provided"])
                /\ UNCHANGED <<sessionStore, created, compileLog, lastOp>>
           ELSE IF getSession(sessionId) = Undefined
           THEN /\ Respond(r, [status |-> 404, at |-> now,
                                error |-> "Session not found or expired"])
                /\ UNCHANGED <<sessionStore, created, compileLog>>
                /\ lastOp' = [op |-> "get", id |-> sessionId, found |-> FALSE]
           ELSE LET moments == MomentsOrEmpty(getSession(sessionId))
                IN  /\ deleteSession(sessionId)
                    /\ created' = Ended(sessionId)
                    /\ lastOp' = [op |-> "delete", id |-> sessionId, existed |-> TRUE]
                    /\ IF GenerateThrows(moments)
                       THEN /\ Respond(r, [status |-> 500, at |-> now,
                                            error |-> "Failed to generate download"])
                            /\ UNCHANGED compileLog
                       ELSE /\ compileLog' = compileLog \o
                                  << [ev |-> "begin", req |-> r, id |-> sessionId,
                                      moments |-> moments],
                                     [ev |-> "end", req |-> r, id |-> sessionId] >>
                            /\ Respond(r, [status |-> 200, id |-> sessionId, at |-> now,
                                           artifact |-> generateMP4WithMoments(moments)])
    /\ UNCHANGED <<sel, vp, files, ui, detect, now, timers, nextTimer>>

\* POST of download-video.  After `await request.json()` the handler runs to
\* its return without another await: getSession, generateMP4WithMoments and
\* deleteSession are one step.
DownloadVideo(r) ==
    /\ r \in 1..Len(dl)
    /\ dl[r].pc = "json"
    /\ LET body == dl[r].body
           sessionId == Field(body, "sessionId")
       IN  IF "malformed" \in DOMAIN body
           THEN /\ Respond(r, [status |-> 500, error |-> "Failed to generate download"])
                /\ UNCHANGED <<sessionStore, created, compileLog, lastOp>>
           ELSE IF "sessionId" \notin DOMAIN body \/ sessionId = <<>>
           THEN /\ Respond(r, [status |-> 400, error |-> "No session ID provided"])
                /\ UNCHANGED <<sessionStore, created, compileLog, lastOp>>
           ELSE IF getSession(sessionId) = Undefined
           THEN /\ Respond(r, [status |-> 404, at |-> now,
                                error |-> "Session not found or expired"])
                /\ UNCHANGED <<sessionStore, created, compileLog>>
                /\ lastOp' = [op |-> "get", id |-> sessionId, found |-> FALSE]
           ELSE IF GenerateThrows(MomentsOrEmpty(getSession(sessionId)))
           THEN /\ Respond(r, [status |-> 500, at |-> now,
                                error |-> "Failed to generate download"])
                /\ UNCHANGED <<sessionStore, created, compileLog>>
                /\ lastOp' = [op |-> "get", id |-> sessionId, found |-> TRUE]
           ELSE LET moments == MomentsOrEmpty(getSession(sessionId))
                IN  /\ compileLog' = compileLog \o
                          << [ev |-> "begin", req |-> r, id |-> sessionId,
                              moments |-> moments],
                             [ev |-> "end", req |-> r, id |-> sessionId] >>
                    /\ deleteSession(sessionId)
                    /\ created' = Ended(sessionId)
                    /\ Respond(r, [status |-> 200, id |-> sessionId, at |-> now,
                                   artifact |-> generateMP4WithMoments(moments)])
                    /\ lastOp' = [op |-> "delete", id |-> sessionId, existed |-> TRUE]
    /\ UNCHANGED <<sel, vp, files, ui, detect, now, timers, nextTimer>>

\* the stream Math.random() yields in a process-video request
ServerStreams == {ZeroStream}

Next ==
    \/ \E body \in ProcessBodies, rnd \in ServerStreams : ProcessVideo(body, rnd)
    \/ \E body \in DownloadBodies : DownloadArrive(body)
    \/ \E r \in 1..Len(dl) : DownloadVideo(r)
    \/ \E t \in timers : TimerFire(t)
    \/ \E d \in TickSteps : Tick(d)

Spec == Init /\ [][Next]_vars

\* setTimeout callbacks that are due are run, and requests are answered
FairSpec ==
    /\ Spec
    /\ \A h \in 1..MaxRequests : WF_vars(\E t \in timers : t.handle = h /\ TimerFire(t))
    /\ \A r \in 1..MaxRequests : WF_vars(DownloadVideo(r))

----------------------------------------------------------------------------
(* Properties of the selectors (checked under SpecSel) *)

SelectorCalls == {"detectBestMoments", "analyzeYouTubeVideo",
                  "VideoProcessor.detectBestMoments"}

\* seconds are counted in VPUnit-ths by VideoProcessor, in units by the others
UnitOf(fn) == IF fn = "VideoProcessor.detectBestMoments" THEN VPUnit ELSE 1

\* the duration process-video used for the video a moment was cut from
SourceDuration(call, moment) ==
    IF call.fn = "process-video"
    THEN VideoDurationOrDefault(call.videos[moment.videoIndex + 1])
    ELSE call.videoDuration

\* C1: for every videoDuration > 0 and targetDuration > 0 and every jitter,
\* each selector (and the process-video selection built on it) returns at
\* least one moment, and every moment has 0 <= start < end <= videoDuration.
C1_MomentsInsideVideo ==
    /\ (sel.fn \in SelectorCalls /\ sel.videoDuration > 0 /\ sel.targetDuration > 0)
         => /\ Len(sel.out) >= 1
            /\ \A i \in 1..Len(sel.out) :
                 /\ 0 <= sel.out[i].start
                 /\ sel.out[i].start < sel.out[i].end
                 /\ sel.out[i].end <= sel.videoDuration * UnitOf(sel.fn)
    /\ (sel.fn = "process-video" /\ sel.targetDuration > 0)
         => /\ Len(sel.out) >= 1
            /\ \A i \in 1..Len(sel.out) :
                 /\ 0 <= sel.out[i].start
                 /\ sel.out[i].start < sel.out[i].end
                 /\ sel.out[i].end <= SourceDuration(sel, sel.out[i])

\* a 7 s video: a jittered start is clamped to videoDuration - 5 and the
\* moment ends exactly at the end of the video
C1_Witness ==
    /\ sel.fn = "detectBestMoments"
    /\ sel.videoDuration = 7
    /\ sel.targetDuration = 30
    /\ Len(sel.out) = 7
    /\ \E i \in 1..Len(sel.out) : sel.out[i].start = 2 /\ sel.out[i].end = 7
    /\ \E i \in 1..Len(sel.out) : sel.out[i].start = 0 /\ sel.out[i].end = 5

\* C9: the moments process-video returns are in strictly increasing `order`,
\* and of two moments of the same source video the one with the smaller
\* order never starts later.
C9_OrderIsChronological ==
    sel.fn = "process-video" =>
        \A i, j \in 1..Len(sel.out) :
            i < j =>
               /\ sel.out[i].order < sel.out[j].order
               /\ sel.out[i].videoIndex = sel.out[j].videoIndex
                    => sel.out[i].start <= sel.out[j].start

\* total length of the moments of a selection, in seconds
TotalLength(moments) ==
    SumSeq([i \in 1..Len(moments) |-> moments[i].end - moments[i].start])

\* C10: for typical inputs (every source video 600 s long, targetDuration
\* 30 s) the total length of the moments kept is within 15 % of
\* targetDuration.
C10_TotalWithinTolerance ==
    (/\ sel.fn = "process-video"
     /\ sel.targetDuration = 30
     /\ \A v \in 1..Len(sel.videos) : VideoDurationOrDefault(sel.videos[v]) = 600)
       => /\ 100 * TotalLength(sel.out) >= 85 * sel.targetDuration
          /\ 100 * TotalLength(sel.out) <= 115 * sel.targetDuration

----------------------------------------------------------------------------
(* Properties of the session store and of the handlers *)

Creations == 1..Len(created)

Downloads == 1..Len(dl)

Answered(r) == r \in Downloads /\ dl[r].pc = "done"

Succeeded(r) == Answered(r) /\ dl[r].resp.status = 200

\* C2: getSession(id) after createSession(data) returned id, with no
\* deleteSession(id) and no expiry of id in between, returns that data,
\* whatever other calls were made in between.
C2_GetReturnsCreatedData ==
    \A i \in Creations :
        created[i].live => getSession(created[i].id) = created[i].data

\* C3: no two createSession calls return the same id, also when both are
\* made in the same millisecond.
C3_SessionIdsUnique ==
    \A i, j \in Creations : i # j => created[i].id # created[j].id

\* C4: after deleteSession(id), or after the TTL timer of the createSession
\* call that returned id has run, getSession(id) returns not-found.
C4_NotFoundAfterDeleteOrExpiry ==
    \A i \in Creations :
        ~created[i].live => getSession(created[i].id) = Undefined

\* C5: deleting is idempotent on both paths.  deleteSession and the timer
\* callback can always run (they raise no error), whether or not the id is
\* in the store; such a step removes at most that id, leaves every other
\* session as it was, and changes nothing when the id is not in the store.
C5_DeleteIdempotent ==
    /\ [](\A id \in KnownIds : ENABLED ApiDelete(id))
    /\ [](\A t \in timers : now >= t.due => ENABLED TimerFire(t))
    /\ [][ lastOp'.op \in {"delete", "timer"} =>
             /\ lastOp'.id \notin DOMAIN sessionStore'
             /\ \A k \in (DOMAIN sessionStore) \ {lastOp'.id} :
                  k \in DOMAIN sessionStore' /\ sessionStore'[k] = sessionStore[k]
             /\ lastOp'.id \notin DOMAIN sessionStore => sessionStore' = sessionStore
         ]_vars

\* deleteSession was called for an id that had been handed out and was no
\* longer in the store, while another session was stored
C5_Witness ==
    /\ lastOp.op = "delete"
    /\ ~lastOp.existed
    /\ \E i \in Creations : created[i].id = lastOp.id
    /\ DOMAIN sessionStore # {}

\* C6: two download-video requests for one session id never generate the
\* artifact at the same time: a generation begun for an id has ended before
\* the next one for that id begins, and every artifact sent is the one
\* generated from the moments read at its begin.
C6_NoConcurrentCompile ==
    /\ \A i, j \in 1..Len(compileLog) :
         (/\ i < j
          /\ compileLog[i].ev = "begin"
          /\ compileLog[j].ev = "begin"
          /\ compileLog[i].id = compileLog[j].id)
            => \E k \in (i + 1)..(j - 1) :
                 compileLog[k].ev = "end" /\ compileLog[k].req = compileLog[i].req
    /\ \A r \in Downloads :
         Succeeded(r) =>
            \E i \in 1..Len(compileLog) :
               /\ compileLog[i].ev = "begin"
               /\ compileLog[i].req = r
               /\ dl[r].resp.artifact = generateMP4WithMoments(compileLog[i].moments)
    /\ \A r \in Downloads :
         Answered(r) => dl[r].resp.status \in {200, 400, 404, 500}

\* two requests for one session id were waiting together; the first was
\* sent the artifact, the other one was answered after it, with 404
C6_Witness ==
    \E r1, r2 \in Downloads :
        /\ r1 # r2
        /\ Succeeded(r1)
        /\ r2 \in dl[r1].pending
        /\ Answered(r2)
        /\ dl[r2].body.sessionId = dl[r1].body.sessionId
        /\ dl[r2].resp.status = 404
        /\ dl[r2].seq > dl[r1].seq

\* C7: once a download-video request has succeeded, getSession of its id
\* returns not-found, and a download-video request for that id answered
\* later gets 404.
C7_SessionGoneAfterDownload ==
    \A r \in Downloads :
        Succeeded(r) =>
           /\ getSession(dl[r].resp.id) = Undefined
           /\ \A q \in Downloads :
                (/\ Answered(q)
                 /\ dl[q].seq > dl[r].seq
                 /\ dl[q].body.sessionId = dl[r].resp.id)
                   => dl[q].resp.status = 404

\* C8: a second download-video request for the same session id, answered
\* within 30 minutes of a successful first one, succeeds too.
C8_SecondDownloadSucceeds ==
    \A r, q \in Downloads :
        (/\ Succeeded(r)
         /\ Answered(q)
         /\ dl[q].seq > dl[r].seq
         /\ dl[q].body.sessionId = dl[r].resp.id
         /\ dl[q].resp.at <= dl[r].resp.at + HalfHour)
           => dl[q].resp.status = 200

----------------------------------------------------------------------------
(* Properties of the selection: budget, short inputs, clip length          *)
(* (checked under SpecSel)                                                 *)

\* C11: the total length of the moments process-video keeps never exceeds
\* targetDuration by more than 10 %.
C11_TotalWithinClamp ==
    (sel.fn = "process-video" /\ sel.targetDuration > 0)
       => 100 * TotalLength(sel.out) <= 110 * sel.targetDuration

\* C12: for a video shorter than one clip (videoDuration = 3) and
\* targetDuration = 30, detectBestMoments, and process-video on that single
\* video, return exactly one moment, with start = 0 and end = videoDuration.
C12_ShortVideoSingleMoment ==
    /\ (sel.fn = "detectBestMoments" /\ sel.videoDuration = 3 /\ sel.targetDuration = 30)
         => /\ Len(sel.out) = 1
            /\ sel.out[1].start = 0
            /\ sel.out[1].end = 3
    /\ (/\ sel.fn = "process-video"
        /\ sel.targetDuration = 30
        /\ Len(sel.videos) = 1
        /\ VideoDurationOrDefault(sel.videos[1]) = 3)
         => /\ Len(sel.out) = 1
            /\ sel.out[1].start = 0
            /\ sel.out[1].end = 3

\* the candidates process-video discarded
Discarded(call) ==
    { c \in {call.candidates[j] : j \in 1..Len(call.candidates)} :
        \A i \in 1..Len(call.out) : call.out[i].order # c.order }

\* C13: process-video keeps ceil(targetDuration / 4.5) of the candidates, or
\* all of them when there are fewer (none when the budget is not positive);
\* no discarded candidate has a strictly higher score than a kept one; the
\* kept moments are in increasing `order`.
C13_TopByScore ==
    sel.fn = "process-video" =>
        /\ Len(sel.out) = Max(0, Min(CeilDiv(2 * sel.targetDuration, 9),
                                     Len(sel.candidates)))
        /\ \A i \in 1..Len(sel.out) :
             \E j \in 1..Len(sel.candidates) : sel.candidates[j] = sel.out[i]
        /\ \A c \in Discarded(sel) :
             \A i \in 1..Len(sel.out) : c.score <= sel.out[i].score
        /\ \A i \in 1..(Len(sel.out) - 1) : sel.out[i].order < sel.out[i + 1].order

\* two videos give 14 candidates for a budget of 7; a candidate was discarded
\* although it comes earlier than a kept one with a higher score
C13_Witness ==
    /\ sel.fn = "process-video"
    /\ sel.targetDuration = 30
    /\ Len(sel.candidates) = 14
    /\ Len(sel.out) = 7
    /\ \E c \in Discarded(sel) :
         \E i \in 1..Len(sel.out) :
            c.order < sel.out[i].order /\ c.score < sel.out[i].score

\* number of kept moments cut from the video at position v (from 1)
KeptFrom(call, v) ==
    Cardinality({i \in 1..Len(call.out) : call.out[i].videoIndex = v - 1})

\* sum of the durations process-video used for the videos
TotalSourceDuration(call) ==
    SumSeq([v \in 1..Len(call.videos) |-> VideoDurationOrDefault(call.videos[v])])

\* C14: with several source videos, the number of moments kept from each
\* video is its share (duration / total duration) of the budget
\* ceil(targetDuration / 4.5), rounded down or up, whatever the scores.
C14_ProportionalBudget ==
    (sel.fn = "process-video" /\ Len(sel.videos) >= 2 /\ sel.targetDuration > 0)
       => \A v \in 1..Len(sel.videos) :
            LET share == CeilDiv(2 * sel.targetDuration, 9)
                             * VideoDurationOrDefault(sel.videos[v])
                kept  == KeptFrom(sel, v) * TotalSourceDuration(sel)
            IN  /\ kept > share - TotalSourceDuration(sel)
                /\ kept < share + TotalSourceDuration(sel)

\* C15: for 0 < targetDuration <= 4.5 every selector, and process-video for
\* any number of source videos, returns exactly one moment, whatever the
\* video durations.
C15_TargetBelowOneClip ==
    (sel.fn # "none" /\ sel.targetDuration > 0 /\ 2 * sel.targetDuration <= 9)
       => Len(sel.out) = 1

\* process-video cut one candidate from each of two videos and kept one
C15_Witness ==
    /\ sel.fn = "process-video"
    /\ sel.targetDuration = 4
    /\ Len(sel.videos) = 2
    /\ Len(sel.candidates) = 2
    /\ Len(sel.out) = 1

\* length of a moment, in the unit of the call that made it
ClipLength(moment) == moment.end - moment.start

----------------------------------------------------------------------------
(* detect-video: getYoutubeMetadata and POST *)

\* URLs submitted.  A URL carries what the regular expression of
\* getYoutubeMetadata extracts from it: the 11-character video id, with the
\* code of its first character; a URL the expression does not match has none.
UrlA ==
    [href |-> "https://youtu.be/dQw4w9WgXcQ", videoId |-> "dQw4w9WgXcQ", charCode0 |-> 100]

UrlB ==
    [href |-> "https://www.youtube.com/watch?v=9bZkp7q19f0", videoId |-> "9bZkp7q19f0",
     charCode0 |-> 57]

UrlNoMatch == [href |-> "https://vimeo.com/76979871"]

\* what the oembed request of a video id comes back with
FetchOutcomes(videoId) ==
    { [ok |-> TRUE, title |-> <<"title of", videoId>>,
       author_name |-> <<"author of", videoId>>,
       thumbnail_url |-> <<"thumbnail of", videoId>>],
      [ok |-> FALSE] }

\* no request was made: the URL did not match
NoFetch == [ok |-> FALSE, skipped |-> TRUE]

OutcomesOf(url) ==
    IF "videoId" \in DOMAIN url THEN FetchOutcomes(url.videoId) ELSE {NoFetch}

\* 5 + ((parseInt(videoId.charCodeAt(0)) * 37) % 16)
DurationMinutes(url) == 5 + ((url.charCode0 * 37) % 16)

\* getYoutubeMetadata: the metadata, or the Error it throws
getYoutubeMetadata(url, outcome) ==
    IF "videoId" \notin DOMAIN url
    THEN [threw |-> <<"Failed to fetch video metadata", "Invalid YouTube URL">>]
    ELSE IF ~outcome.ok
    THEN [threw |-> <<"Failed to fetch video metadata", "Video not found or unavailable">>]
    ELSE [ id                |-> url.videoId,
           title             |-> outcome.title,
           author            |-> outcome.author_name,
           thumbnail         |-> outcome.thumbnail_url,
           duration          |-> DurationMinutes(url) * 60,
           durationFormatted |-> <<DurationMinutes(url), ":00">> ]

\* the callback of urls.map: the entry of one URL; k is the Math.random()
\* draw the placeholder id is made of
DetectEntry(url, outcome, k) ==
    LET metadata == getYoutubeMetadata(url, outcome)
    IN  IF "threw" \in DOMAIN metadata
        THEN [ id                |-> <<"base36", k>>,
               url               |-> url.href,
               title             |-> "Error loading video",
               duration          |-> 600,
               durationFormatted |-> "10:00",
               channel           |-> "Unknown",
               thumbnail         |-> "/system-error-screen.png",
               error             |-> metadata.threw ]
        ELSE [ id                |-> metadata.id,
               url               |-> url.href,
               title             |-> metadata.title,
               duration          |-> metadata.duration,
               durationFormatted |-> metadata.durationFormatted,
               channel           |-> metadata.author,
               thumbnail         |-> metadata.thumbnail ]

\* an entry of Promise.all that is not resolved yet
Pending == [pending |-> TRUE]

\* detect-video bodies with a non-empty `urls` array
DetectBodies ==
    { [urls |-> <<UrlA>>],
      [urls |-> <<UrlNoMatch>>],
      [urls |-> <<UrlA, UrlB>>],
      [urls |-> <<UrlNoMatch, UrlA>>],
      [urls |-> <<UrlB, UrlB>>] }

\* bodies detect-video rejects; a body without `urls` stands for one whose
\* `urls` is not an array
BadDetectBodies == { [other |-> 1], [urls |-> <<>>] }

\* !Array.isArray(urls) || urls.length === 0
NoUrlsProvided(body) ==
    "urls" \notin DOMAIN body \/ Len(body.urls) = 0

\* POST of detect-video up to its first await: the 400 answer, or one
\* getYoutubeMetadata call per URL, all in flight together
DetectVideo(body) ==
    /\ Len(detect) + Len(created) < MaxApiCalls
    /\ IF NoUrlsProvided(body)
       THEN detect' = Append(detect,
                [ pc |-> "done", body |-> body,
                  resp |-> [status |-> 400, error |-> "No URLs provided"] ])
       ELSE detect' = Append(detect,
                [ pc |-> "fetching", body |-> body,
                  fetched |-> [i \in 1..Len(body.urls) |-> Pending],
                  entries |-> [i \in 1..Len(body.urls) |-> Pending],
                  resp |-> NoResponse ])
    /\ UNCHANGED <<sel, vp, files, ui, now, sessionStore, timers, nextTimer, created, dl, compileLog,
                   lastOp>>

\* the URLs request r asks for
UrlsOf(r) == IF NoUrlsProvided(detect[r].body) THEN <<>> ELSE detect[r].body.urls

\* the entries of request r once the entry of its i-th URL is `entry`
EntriesWith(r, i, entry) == [detect[r].entries EXCEPT ![i] = entry]

\* the callback of the i-th URL without its try/catch: a failure rejects
\* Promise.all and the request is answered by the outer catch
MetadataSettleRejecting(r, i, outcome, rnd) ==
    /\ r \in 1..Len(detect)
    /\ detect[r].pc = "fetching"
    /\ i \in 1..Len(detect[r].body.urls)
    /\ detect[r].entries[i] = Pending
    /\ outcome \in OutcomesOf(detect[r].body.urls[i])
    /\ LET url == detect[r].body.urls[i]
           entries == EntriesWith(r, i, DetectEntry(url, outcome, Rand(rnd, 0)))
           failed == "threw" \in DOMAIN getYoutubeMetadata(url, outcome)
           all == \A j \in 1..Len(entries) : entries[j] # Pending
       IN  detect' = [detect EXCEPT ![r] =
               [ pc      |-> IF all \/ failed THEN "done" ELSE "fetching",
                 body    |-> detect[r].body,
                 fetched |-> [detect[r].fetched EXCEPT ![i] = outcome],
                 entries |-> entries,
                 resp    |-> IF failed
                             THEN [status |-> 500, error |-> "Failed to process videos"]
                             ELSE IF all THEN [status |-> 200, videos |-> entries]
                             ELSE NoResponse ]]
    /\ UNCHANGED <<sel, vp, files, ui, now, sessionStore, timers, nextTimer, created, dl, compileLog,
                   lastOp>>

\* the getYoutubeMetadata call of the i-th URL of request r returns or
\* throws; the callback turns it into the entry of that URL.  When it was
\* the last entry awaited, Promise.all resolves and the request is answered.
MetadataSettle(r, i, outcome, rnd) ==
    /\ r \in 1..Len(detect)
    /\ detect[r].pc = "fetching"
    /\ i \in 1..Len(detect[r].body.urls)
    /\ detect[r].entries[i] = Pending
    /\ outcome \in OutcomesOf(detect[r].body.urls[i])
    /\ LET url == detect[r].body.urls[i]
           entries == EntriesWith(r, i, DetectEntry(url, outcome, Rand(rnd, 0)))
           all == \A j \in 1..Len(entries) : entries[j] # Pending
       IN  detect' = [detect EXCEPT ![r] =
               [ pc      |-> IF all THEN "done" ELSE "fetching",
                 body    |-> detect[r].body,
                 fetched |-> [detect[r].fetched EXCEPT ![i] = outcome],
                 entries |-> entries,
                 resp    |-> IF all THEN [status |-> 200, videos |-> entries]
                             ELSE NoResponse ]]
    /\ UNCHANGED <<sel, vp, files, ui, now, sessionStore, timers, nextTimer, created, dl, compileLog,
                   lastOp>>

\* process-video bodies followed next to detect-video: the rejected ones,
\* and well-formed ones whose target duration is zero or negative
ApiProcessBodies ==
    BadProcessBodies \cup
    { [videos |-> <<[id |-> "c", title |-> "C", duration |-> 600]>>,
       settings |-> [duration |-> 0, quality |-> "720p"]],
      [videos |-> <<[id |-> "c", title |-> "C", duration |-> 600]>>,
       settings |-> [duration |-> -5, quality |-> "720p"]] }

ApiNext ==
    \/ \E body \in DetectBodies \cup BadDetectBodies : DetectVideo(body)
    \/ \E r \in 1..Len(detect), rnd \in ServerStreams :
         \E i \in 1..Len(UrlsOf(r)) :
            \E outcome \in OutcomesOf(UrlsOf(r)[i]) :
               MetadataSettle(r, i, outcome, rnd)
    \/ \E body \in ApiProcessBodies, rnd \in ServerStreams :
         /\ Len(detect) + Len(created) < MaxApiCalls
         /\ ProcessVideo(body, rnd)

SpecApi == Init /\ [][ApiNext]_vars

----------------------------------------------------------------------------
(* Properties of the request validation and of detect-video (checked       *)
(* under SpecApi)                                                          *)

DetectRequests == 1..Len(detect)

\* the session store and its history are as they were
NoSessionCreated ==
    /\ sessionStore' = sessionStore
    /\ created' = created
    /\ timers' = timers

\* C17: detect-video answers a body whose `urls` is empty or not an array
\* with 400 and resolves nothing for it; process-video answers a body whose
\* `videos` is empty or not an array with 400, and that request creates no
\* session.
C17_InvalidInputRejected ==
    /\ [](\A r \in DetectRequests :
            detect[r].body \in BadDetectBodies =>
               /\ detect[r].pc = "done"
               /\ detect[r].resp = [status |-> 400, error |-> "No URLs provided"]
               /\ "entries" \notin DOMAIN detect[r])
    /\ [][ \A body \in BadProcessBodies :
             \A rnd \in ServerStreams :
                ProcessVideo(body, rnd) =>
                   /\ lastOp'.op = "process-video"
                   /\ lastOp'.status = 400
                   /\ NoSessionCreated
         ]_vars

\* both routes have rejected a request with an empty array
C17_Witness ==
    /\ lastOp.op = "process-video"
    /\ lastOp.status = 400
    /\ lastOp.body = [videos |-> <<>>, settings |-> [duration |-> 4]]
    /\ sessionStore = <<>>
    /\ \E r \in DetectRequests :
         detect[r].body = [urls |-> <<>>] /\ detect[r].resp.status = 400

\* C18: process-video answers a body whose settings.duration is 0 or
\* negative with an error, and creates no session for it.
C18_NonPositiveTargetRejected ==
    (/\ lastOp.op = "process-video"
     /\ "settings" \in DOMAIN lastOp.body
     /\ "duration" \in DOMAIN lastOp.body.settings
     /\ lastOp.body.settings.duration <= 0)
       => /\ lastOp.status = 400
          /\ "id" \notin DOMAIN lastOp

\* C19: a detect-video request with a non-empty `urls` array is answered
\* with 200 and one entry per URL, in input order.  The entry of a URL that
\* could not be resolved is a placeholder with an `error`; the entry of a
\* URL that was resolved carries its video id and the title fetched for it,
\* whatever happened to the other URLs of the request.
C19_OneEntryPerUrl ==
    \A r \in DetectRequests :
        detect[r].body \in DetectBodies =>
           /\ detect[r].resp.status \in {0, 200}
           /\ detect[r].pc = "done" =>
                /\ detect[r].resp.status = 200
                /\ Len(detect[r].resp.videos) = Len(detect[r].body.urls)
                /\ \A i \in 1..Len(detect[r].body.urls) :
                     LET url   == detect[r].body.urls[i]
                         entry == detect[r].resp.videos[i]
                     IN  /\ entry.url = url.href
                         /\ IF "videoId" \in DOMAIN url /\ detect[r].fetched[i].ok
                            THEN /\ "error" \notin DOMAIN entry
                                 /\ entry.id = url.videoId
                                 /\ entry.title = detect[r].fetched[i].title
                            ELSE /\ "error" \in DOMAIN entry
                                 /\ entry.title = "Error loading video"

\* a request for two different videos was answered: the first URL resolved,
\* the oembed request made for the second did not succeed
C19_Witness ==
    \E r \in DetectRequests :
        /\ detect[r].pc = "done"
        /\ detect[r].resp.status = 200
        /\ Len(detect[r].resp.videos) = 2
        /\ detect[r].body.urls[1] # detect[r].body.urls[2]
        /\ "videoId" \in DOMAIN detect[r].body.urls[2]
        /\ "error" \notin DOMAIN detect[r].resp.videos[1]
        /\ "error" \in DOMAIN detect[r].resp.videos[2]

----------------------------------------------------------------------------
(* Properties of the fallback duration (checked under SpecSel) *)

\* C20: when the duration of a video is missing or zero, process-video
\* still answers, cuts its moments inside the default 600 seconds, and
\* every moment of that video carries degraded: true.
C20_UnknownDurationDegraded ==
    sel.fn = "process-video" =>
        \A i \in 1..Len(sel.out) :
            Field(sel.videos[sel.out[i].videoIndex + 1], "duration") = 0
               => /\ sel.out[i].end <= 600
                  /\ "degraded" \in DOMAIN sel.out[i]
                  /\ sel.out[i].degraded

----------------------------------------------------------------------------
(* VideoProcessor.compileVideo, and the download route with the requests   *)
(* it refuses                                                              *)

\* quality === '1080p' ? '5000k' : quality === '720p' ? '2500k' : '1000k'
Bitrate(quality) ==
    IF quality = "1080p" THEN "5000k" ELSE IF quality = "720p" THEN "2500k" ELSE "1000k"

\* the ffmpeg command line compileVideo runs: one `-ss -to -i` group per
\* clip, the pads of the filter graph, the n of concat, and the output
compileVideo(clips, outputPath, quality) ==
    [ inputs  |-> [ i \in 1..Len(clips) |->
                      [ss |-> clips[i].start, to |-> clips[i].end, i |-> clips[i].filePath] ],
      pads    |-> [ i \in 1..Len(clips) |-> <<i - 1, "v:0", i - 1, "a:0">> ],
      concat  |-> [n |-> Len(clips), v |-> 1, a |-> 1],
      bitrate |-> Bitrate(quality),
      output  |-> outputPath ]

\* `clips` arguments of compileVideo
ClipLists ==
    { <<[filePath |-> "/tmp/video-compiler/a.mp4", start |-> 0, end |-> 2],
        [filePath |-> "/tmp/video-compiler/b.mp4", start |-> 10, end |-> 13],
        [filePath |-> "/tmp/video-compiler/c.mp4", start |-> 4, end |-> 5]>>,
      <<[filePath |-> "/tmp/video-compiler/b.mp4", start |-> 10, end |-> 13],
        [filePath |-> "/tmp/video-compiler/a.mp4", start |-> 0, end |-> 2]>> }

SelCompile ==
    /\ sel.fn = "none"
    /\ \E clips \in ClipLists :
         sel' = [ fn |-> "VideoProcessor.compileVideo", rnd |-> sel.rnd,
                  clips |-> clips,
                  out |-> compileVideo(clips, "/tmp/video-compiler/out.mp4", "720p") ]
    /\ UNCHANGED storeVars

\* a stream of Math.random() whose draws differ
SteppedStream == [c \in 0..(RandPeriod - 1) |-> (c * RandDen) \div RandPeriod]

DlNext ==
    \/ \E body \in
          { [videos |-> <<[id |-> "c", title |-> "C", duration |-> 600],
                          [id |-> "a", title |-> "A", duration |-> 3]>>,
             settings |-> [duration |-> 12, quality |-> "1080p"]] } :
         ProcessVideo(body, SteppedStream)
    \* session data stored by other callers of createSession: without moments,
    \* and with a moments array that holds a null
    \/ \E data \in { [payload |-> "p"], [moments |-> <<Null>>] } :
         Len(created) + Len(dl) < MaxRequests /\ ApiCreate(data)
    \/ \E body \in DownloadBodies \cup BadDownloadBodies : DownloadArrive(body)
    \/ \E r \in 1..Len(dl) : DownloadVideo(r)
    \/ SelCompile

SpecDl == Init /\ [][DlNext]_vars

----------------------------------------------------------------------------
(* Properties of the artifact and of failed downloads (checked under SpecDl) *)

\* the moments request r read from the store when its generation began
MomentsRead(r) ==
    compileLog[CHOOSE i \in 1..Len(compileLog) :
                  compileLog[i].ev = "begin" /\ compileLog[i].req = r].moments

\* C21: compileVideo feeds the clips to the concat graph in list order, with
\* n the number of clips; the artifact of download-video holds one line per
\* stored moment, in stored order, and the moments process-video stored are
\* in ascending `order`.
C21_ArtifactInInputOrder ==
    /\ sel.fn = "VideoProcessor.compileVideo" =>
         /\ sel.out.concat.n = Len(sel.clips)
         /\ Len(sel.out.inputs) = Len(sel.clips)
         /\ Len(sel.out.pads) = Len(sel.clips)
         /\ \A k \in 1..Len(sel.clips) :
              /\ sel.out.inputs[k].i = sel.clips[k].filePath
              /\ sel.out.inputs[k].ss = sel.clips[k].start
              /\ sel.out.inputs[k].to = sel.clips[k].end
              /\ sel.out.pads[k][1] = k - 1
              /\ sel.out.pads[k][3] = k - 1
    /\ \A r \in Downloads :
         Succeeded(r) =>
            LET stored == MomentsRead(r)
                mdat   == dl[r].resp.artifact.mdat
            IN  /\ Len(mdat) = Len(stored)
                /\ \A k \in 1..Len(stored) :
                     /\ mdat[k][1] = MomentField(stored[k], "order")
                     /\ mdat[k][2] = MomentField(stored[k], "title")
                /\ \A k \in 1..(Len(stored) - 1) : mdat[k][1] < mdat[k + 1][1]

\* three clips were compiled, and an artifact was sent that holds moments of
\* two videos, not in the order of their scores
C21_Witness ==
    /\ sel.fn = "VideoProcessor.compileVideo"
    /\ Len(sel.clips) = 3
    /\ \E r \in Downloads :
         /\ Succeeded(r)
         /\ Len(dl[r].resp.artifact.mdat) = 3
         /\ \E j, k \in 1..Len(MomentsRead(r)) :
              /\ j < k
              /\ MomentsRead(r)[j].videoIndex # MomentsRead(r)[k].videoIndex
              /\ MomentsRead(r)[j].score < MomentsRead(r)[k].score

\* request r is answered in this step
AnsweredNow(r) == dl[r].pc = "json" /\ dl'[r].pc = "done"

\* C25: a download-video request answered 400 (no session id), 404 (unknown
\* id) or 500 (request not readable, or exception while the artifact is
\* generated) leaves the session store as it was; a session leaves the store
\* only in a step that answers a request with 200.
C25_FailedDownloadKeepsStore ==
    /\ [](\A r \in Downloads :
            Answered(r) =>
               /\ "malformed" \in DOMAIN dl[r].body => dl[r].resp.status = 500
               /\ dl[r].body = [quality |-> "720p"] => dl[r].resp.status = 400
               /\ dl[r].body = [sessionId |-> BogusId, quality |-> "720p"]
                    => dl[r].resp.status = 404)
    /\ [][ \A r \in Downloads :
             AnsweredNow(r) =>
                /\ dl'[r].resp.status # 200 =>
                     sessionStore' = sessionStore /\ created' = created
                /\ dl'[r].resp.status = 200 =>
                     DOMAIN sessionStore' = (DOMAIN sessionStore) \ {dl[r].body.sessionId}
         ]_vars
    /\ [][ (DOMAIN sessionStore) \ (DOMAIN sessionStore') # {} =>
             \E r \in Downloads : AnsweredNow(r) /\ dl'[r].resp.status = 200
         ]_vars

\* the generation threw for a stored session: the request was answered 500
\* and the session is still in the store; a request for an unknown id was
\* answered 404
C25_Witness ==
    /\ \E r \in Downloads :
         /\ Answered(r)
         /\ dl[r].resp.status = 500
         /\ "sessionId" \in DOMAIN dl[r].body
         /\ dl[r].body.sessionId \in DOMAIN sessionStore
         /\ GenerateThrows(MomentsOrEmpty(getSession(dl[r].body.sessionId)))
    /\ \E r \in Downloads :
         Answered(r) /\ dl[r].resp.status = 404

----------------------------------------------------------------------------
(* Concurrent downloads of one session (checked under SpecRace) *)

\* sessions are created while download requests are in flight, within one
\* millisecond or across several
RaceNext ==
    \/ \E data \in
          { [moments |-> <<[order |-> 1, title |-> "Peak engagement",
                            timestamp |-> <<0, 45>>]>>,
             quality |-> "720p"],
            [moments |-> <<[order |-> 1, title |-> "Peak engagement",
                            timestamp |-> <<1, 30>>],
                           [order |-> 2, title |-> "Viral transition",
                            timestamp |-> <<3, 0>>]>>,
             quality |-> "1080p"] } : ApiCreate(data)
    \/ \E body \in DownloadBodies : DownloadArrive(body)
    \/ \E r \in 1..Len(dl) : DownloadVideo(r)
    \/ Tick(1)

SpecRace == Init /\ [][RaceNext]_vars

\* r and q were waiting in `await request.json()` at the same time
Concurrent(r, q) ==
    /\ r # q
    /\ Answered(r)
    /\ Answered(q)
    /\ q \in dl[r].pending \/ r \in dl[q].pending

\* C24: of the download-video requests for one session id that are in
\* flight together, at most one is sent the artifact, and every other one
\* is answered 404.
C24_AtMostOneArtifact ==
    \A r, q \in Downloads :
        (/\ Concurrent(r, q)
         /\ dl[r].body.sessionId = dl[q].body.sessionId
         /\ Succeeded(r))
           => dl[q].resp.status = 404

----------------------------------------------------------------------------
(* VideoProcessor.detectBestMoments as a process: its awaits and the file  *)
(* its scene detection writes                                              *)

\* arguments of the calls: the downloaded file of a session's video
VPCalls ==
    { [filePath |-> "/tmp/video-compiler/s1-c.mp4", sessionId |-> "s1",
       targetDuration |-> 4, videoTitle |-> "C", videoId |-> "c"],
      [filePath |-> "/tmp/video-compiler/s2-a.mp4", sessionId |-> "s2",
       targetDuration |-> 9, videoTitle |-> "A", videoId |-> "a"] }

\* detectBestMoments is called and awaits getVideoDuration
VPCall(args) ==
    /\ Len(vp) < MaxVPCalls
    /\ vp' = Append(vp, [pc |-> "ffprobe", args |-> args])
    /\ UNCHANGED <<sel, now, sessionStore, timers, nextTimer, created, dl, compileLog,
                   lastOp, detect, files, ui>>

\* ffprobe returns (probed > 0, in tenths of a second) or fails (probed = 0,
\* and detectBestMoments throws); on success the scene detection is started,
\* which opens its output file
VPProbed(r, probed) ==
    /\ r \in 1..Len(vp)
    /\ vp[r].pc = "ffprobe"
    /\ IF probed = 0
       THEN /\ vp' = [vp EXCEPT ![r] =
                        [pc |-> "threw", args |-> vp[r].args,
                         error |-> "Failed to detect moments"]]
            /\ UNCHANGED files
       ELSE /\ vp' = [vp EXCEPT ![r] =
                        [pc |-> "ffmpeg", args |-> vp[r].args, probed |-> probed]]
            /\ files' = Append(files, [path |-> "/tmp/scenes.txt", by |-> r])
    /\ UNCHANGED <<sel, now, sessionStore, timers, nextTimer, created, dl, compileLog,
                   lastOp, detect, ui>>

\* the scene detection ends (its failure is ignored) and the moments are
\* computed and returned
VPScenesDone(r, rnd) ==
    /\ r \in 1..Len(vp)
    /\ vp[r].pc = "ffmpeg"
    /\ vp' = [vp EXCEPT ![r] =
                [pc |-> "returned", args |-> vp[r].args, probed |-> vp[r].probed,
                 out |-> VPdetectBestMoments(vp[r].probed, vp[r].args.targetDuration,
                                             vp[r].args.videoTitle, rnd)]]
    /\ UNCHANGED <<sel, now, sessionStore, timers, nextTimer, created, dl, compileLog,
                   lastOp, detect, files, ui>>

VPNext ==
    \/ \E args \in VPCalls : VPCall(args)
    \/ \E r \in 1..Len(vp), probed \in {0, 72, 6000} : VPProbed(r, probed)
    \/ \E r \in 1..Len(vp) : VPScenesDone(r, SteppedStream)

SpecVP == Init /\ [][VPNext]_vars

\* C22: two VideoProcessor calls made for different sessions never write the
\* same path, and every path written contains the session id of its call.
C22_FilesNamespaced ==
    /\ \A i, j \in 1..Len(files) :
         vp[files[i].by].args.sessionId # vp[files[j].by].args.sessionId
            => files[i].path # files[j].path
    /\ \A r, q \in 1..Len(vp) :
         (r # q /\ vp[r].pc = "ffmpeg" /\ vp[q].pc = "ffmpeg")
            => \A i, j \in 1..Len(files) :
                 (files[i].by = r /\ files[j].by = q) => files[i].path # files[j].path

\* ---------------------------------------------------------------------------
\* The pages in the browser.  An event handler, a timer callback and the
\* continuation of an await each run to completion, so each is one step; a
\* fetch in flight is an element of ui.pending, which remembers what the
\* continuation has captured in its closure.  The answers of the backend are
\* inputs.  A session id '' is written 0.
\* ---------------------------------------------------------------------------

UiFrame ==
    UNCHANGED <<sel, now, sessionStore, timers, nextTimer, created, dl, compileLog,
                lastOp, detect, vp, files>>

\* clearInterval(handle)
clearInterval(intervals, handle) == { i \in intervals : i.id # handle }

\* ---------------------------------------------------------------------------
\* Home with the poller kept in a ref (pollerRef)
\* ---------------------------------------------------------------------------

PRInit ==
    /\ ServerInit
    /\ ui = [page |-> "pollerRef", step |-> "input", isProcessing |-> FALSE, sessionId |-> 0,
     videos |-> <<>>, pollerRef |-> 0, intervals |-> {}, pending |-> {},
     nextId |-> 1, events |-> 0, polls |-> 0, added |-> {}, removed |-> {}]

\* URLInput, shown in step 'input', calls handleAddVideos (the same code in
\* every variant of Home): the detect-video request leaves; its continuation
\* keeps the videos of the render in which the handler was called
handleAddVideos ==
    /\ ui.step = "input"
    /\ ui' = [ui EXCEPT !.pending = @ \cup {[id |-> ui.nextId, kind |-> "detectVideo",
                                             videos |-> ui.videos]},
                        !.nextId = @ + 1, !.events = @ + 1]
    /\ UiFrame

\* the detect-video answer: setVideos([...videos, ...data.videos]) with the
\* videos captured when handleAddVideos was called, or setError
DetectResponse(p, ok) ==
    /\ p \in ui.pending
    /\ p.kind = "detectVideo"
    /\ ui' = [ui EXCEPT !.pending = @ \ {p},
                        !.videos = IF ok THEN Append(p.videos, p.id) ELSE @,
                        !.added = IF ok THEN @ \cup {p.id} ELSE @]
    /\ UiFrame

\* the Generate button (disabled without videos or while isProcessing)
PR_handleGenerate ==
    /\ Len(ui.videos) > 0
    /\ ~ui.isProcessing
    /\ ui.events < MaxPRClicks
    /\ ui' = [ui EXCEPT !.isProcessing = TRUE, !.step = "processing",
                        !.intervals = clearInterval(@, ui.pollerRef),
                        !.pending = @ \cup {[id |-> ui.nextId, kind |-> "processVideo"]},
                        !.nextId = @ + 1, !.events = @ + 1]
    /\ UiFrame

\* the process-video answer: the session id is kept, a first pollProgress is
\* sent and the interval is installed; or the catch block
PR_ProcessResponse(p, ok) ==
    /\ p \in ui.pending
    /\ p.kind = "processVideo"
    /\ IF ok
       THEN ui' = [ui EXCEPT
                     !.sessionId = p.id,
                     !.pending = (@ \ {p}) \cup
                        {[id |-> ui.nextId, kind |-> "progress", by |-> "generate",
                          sid |-> p.id]},
                     !.intervals = @ \cup {[id |-> ui.nextId + 1, by |-> "generate",
                                            sid |-> p.id]},
                     !.pollerRef = ui.nextId + 1,
                     !.nextId = @ + 2]
       ELSE ui' = [ui EXCEPT
                     !.pending = @ \ {p},
                     !.intervals = clearInterval(@, ui.pollerRef),
                     !.isProcessing = FALSE, !.step = "input"]
    /\ UiFrame

\* an interval fires: pollProgress(sid) of the handler that installed it
PR_IntervalTick(i) ==
    /\ i \in ui.intervals
    /\ ui.polls < MaxPolls
    /\ ui' = [ui EXCEPT !.pending = @ \cup {[id |-> ui.nextId, kind |-> "progress",
                                             by |-> i.by, sid |-> i.sid]},
                        !.nextId = @ + 1, !.polls = @ + 1]
    /\ UiFrame

\* the progress answer.  pollProgress of handleGenerate stops the poller and
\* leaves 'processing' on ready and on error; pollProgress of handleDownload
\* only refreshes the task list.
PR_ProgressResponse(p, status) ==
    /\ p \in ui.pending
    /\ p.kind = "progress"
    /\ IF p.by = "generate" /\ status \in {"ready", "error"}
       THEN ui' = [ui EXCEPT
                     !.pending = @ \ {p},
                     !.intervals = clearInterval(@, ui.pollerRef),
                     !.pollerRef = 0,
                     !.isProcessing = FALSE,
                     !.step = IF status = "ready" THEN "preview" ELSE "input",
                     !.sessionId = IF status = "ready" THEN p.sid ELSE @]
       ELSE ui' = [ui EXCEPT !.pending = @ \ {p}]
    /\ UiFrame

\* the Download button of step 'preview': the poller is replaced by one of
\* handleDownload and the download request leaves
PR_handleDownload ==
    /\ ui.step = "preview"
    /\ ui.events < MaxPRClicks
    /\ ui' = [ui EXCEPT
                !.intervals =
                    IF ui.sessionId # 0
                    THEN clearInterval(@, ui.pollerRef)
                            \cup {[id |-> ui.nextId + 1, by |-> "download",
                                   sid |-> ui.sessionId]}
                    ELSE clearInterval(@, ui.pollerRef),
                !.pollerRef = IF ui.sessionId # 0 THEN ui.nextId + 1 ELSE @,
                !.pending = @ \cup {[id |-> ui.nextId, kind |-> "downloadVideo",
                                     sessionId |-> ui.sessionId]},
                !.nextId = @ + 2, !.events = @ + 1]
    /\ UiFrame

\* the download-video answer: whatever interval pollerRef holds is cleared,
\* then a last pollProgress is awaited (with a session id), and a refused
\* download goes to the catch block, which clears pollerRef again
PR_DownloadResponse(p, ok) ==
    /\ p \in ui.pending
    /\ p.kind = "downloadVideo"
    /\ ui' = [ui EXCEPT
                !.intervals = clearInterval(@, ui.pollerRef),
                !.pollerRef = 0,
                !.pending = IF p.sessionId # 0
                            THEN (@ \ {p}) \cup {[id |-> p.id, kind |-> "downloadPoll",
                                                  ok |-> ok]}
                            ELSE @ \ {p}]
    /\ UiFrame

\* the awaited pollProgress of handleDownload returns; !response.ok throws
PR_DownloadPollDone(p) ==
    /\ p \in ui.pending
    /\ p.kind = "downloadPoll"
    /\ ui' = [ui EXCEPT
                !.pending = @ \ {p},
                !.intervals = IF p.ok THEN @ ELSE clearInterval(@, ui.pollerRef),
                !.pollerRef = IF p.ok THEN @ ELSE 0]
    /\ UiFrame

PRNext ==
    \/ ui.events < MaxPRClicks /\ handleAddVideos
    \/ \E p \in ui.pending, ok \in BOOLEAN : DetectResponse(p, ok)
    \/ PR_handleGenerate
    \/ \E p \in ui.pending, ok \in BOOLEAN : PR_ProcessResponse(p, ok)
    \/ \E i \in ui.intervals : PR_IntervalTick(i)
    \/ \E p \in ui.pending, status \in {"failed", "processing", "ready", "error"} : PR_ProgressResponse(p, status)
    \/ PR_handleDownload
    \/ \E p \in ui.pending, ok \in BOOLEAN : PR_DownloadResponse(p, ok)
    \/ \E p \in ui.pending : PR_DownloadPollDone(p)

SpecPR == PRInit /\ [][PRNext]_vars

\* the run started by handleGenerate has obtained its session id
PR_Obtained ==
    /\ ui.step = "processing"
    /\ ~\E p \in ui.pending : p.kind = "processVideo"

\* C26: while the step is 'processing' and the session id has been obtained,
\* an interval that runs the pollProgress of handleGenerate is active (the
\* only poller that can observe ready or error), whatever a pending
\* handleDownload does in between.
C26_PollerStaysActive ==
    PR_Obtained => \E i \in ui.intervals : i.by = "generate"

\* ---------------------------------------------------------------------------
\* Home with the polling effect (useEffect on [sessionId, isProcessing]).
\* The state updates of one handler or continuation are committed together,
\* and the effect's cleanup and re-run belong to that commit: PollEffect is
\* applied at the end of every step that calls a setter.
\* ---------------------------------------------------------------------------

\* the polling effect, from the committed state old to the state set that the
\* setters of the step ask for: nothing when the dependencies are unchanged;
\* otherwise the cleanup of the running instance (cancelled = true,
\* clearInterval(intervalId), ref = null), then the effect body: either the
\* early return that clears progressPollRef, or a new instance with its first
\* fetchProgress() and its interval
PollEffect(old, set) ==
    IF old.sessionId = set.sessionId /\ old.isProcessing = set.isProcessing
    THEN set
    ELSE LET cleaned ==
                 IF old.effect # 0
                 THEN [set EXCEPT !.cancelled = @ \cup {old.effect},
                                  !.intervals = { i \in @ : i.effect # old.effect },
                                  !.progressPollRef = 0,
                                  !.effect = 0]
                 ELSE set
         IN  IF cleaned.sessionId = 0 \/ ~cleaned.isProcessing
             THEN [cleaned EXCEPT !.intervals = clearInterval(@, cleaned.progressPollRef),
                                  !.progressPollRef = 0]
             ELSE [cleaned EXCEPT
                     !.effect = cleaned.nextId,
                     !.pending = @ \cup {[id |-> cleaned.nextId + 1, kind |-> "progress",
                                          effect |-> cleaned.nextId,
                                          sid |-> cleaned.sessionId]},
                     !.intervals = @ \cup {[id |-> cleaned.nextId + 2,
                                            effect |-> cleaned.nextId,
                                            sid |-> cleaned.sessionId]},
                     !.progressPollRef = cleaned.nextId + 2,
                     !.nextId = @ + 3]

\* history: the progress answer handled last (which request, what it said,
\* and whether its effect instance had been cancelled by then)
Handled(p, a) ==
    [id |-> p.id, status |-> IF a.ok THEN a.status ELSE "failed",
     cancelled |-> p.effect \in ui.cancelled]

\* the interval of a running effect instance fires: fetchProgress()
PollTick(i) ==
    /\ i \in ui.intervals
    /\ ui.polls < MaxPolls
    /\ ui' = [ui EXCEPT !.pending = @ \cup {[id |-> ui.nextId, kind |-> "progress",
                                             effect |-> i.effect, sid |-> i.sid]},
                        !.nextId = @ + 1, !.polls = @ + 1]
    /\ UiFrame

\* ---------------------------------------------------------------------------
\* The editor variant of Home
\* ---------------------------------------------------------------------------

EdHome ==
    [page |-> "editor", step |-> "input", isProcessing |-> FALSE, sessionId |-> 0,
     processingProgress |-> 0, processingStage |-> "idle", videos |-> <<>>,
     effect |-> 0, cancelled |-> {}, intervals |-> {}, progressPollRef |-> 0,
     pending |-> {}, nextId |-> 1, events |-> 0, polls |-> 0,
     lastPoll |-> [id |-> 0, status |-> "none", cancelled |-> FALSE],
     added |-> {}, removed |-> {}]

\* what /api/progress can answer: a failure, or a status with its progress
\* and stage label
EdAnswers ==
    { [ok |-> FALSE],
      [ok |-> TRUE, status |-> "processing", progress |-> 50, stage |-> "Analyse"],
      [ok |-> TRUE, status |-> "analyzed", progress |-> 80, stage |-> "Prêt"],
      [ok |-> TRUE, status |-> "ready", progress |-> 100, stage |-> "Compilation terminée"],
      [ok |-> TRUE, status |-> "error", progress |-> 50, stage |-> "Analyse"] }

Ed_mapServerStageToProcessing(stageLabel, status) ==
    IF status = "ready" THEN "completed"
    ELSE IF status = "error" THEN "error"
    ELSE IF stageLabel = "Analyse" THEN "highlights"
    ELSE IF stageLabel = "Prêt" THEN "render"
    ELSE IF stageLabel = "Compilation terminée" THEN "completed"
    ELSE "detect"

\* the Generate button: the setters, then the analyze-moments request leaves
Ed_handleGenerate ==
    /\ ui.page = "editor"
    /\ Len(ui.videos) > 0
    /\ ~ui.isProcessing
    /\ ui.events < MaxUiEvents
    /\ ui' = PollEffect(ui,
                [ui EXCEPT !.isProcessing = TRUE, !.step = "processing",
                           !.processingProgress = 0, !.processingStage = "detect",
                           !.sessionId = 0,
                           !.pending = @ \cup {[id |-> ui.nextId, kind |-> "analyze"]},
                           !.nextId = @ + 1, !.events = @ + 1])
    /\ UiFrame

\* the analyze-moments answer: setSessionId(data.sessionId), or the catch
\* block (response not ok, or no sessionId in the answer)
Ed_AnalyzeResponse(p, ok) ==
    /\ ui.page = "editor"
    /\ p \in ui.pending
    /\ p.kind = "analyze"
    /\ ui' = PollEffect(ui,
                IF ok
                THEN [ui EXCEPT !.pending = @ \ {p}, !.sessionId = p.id]
                ELSE [ui EXCEPT !.pending = @ \ {p}, !.isProcessing = FALSE,
                                !.step = "input", !.processingStage = "error"])
    /\ UiFrame

\* the continuation of fetchProgress
Ed_ProgressResponse(p, a) ==
    /\ ui.page = "editor"
    /\ p \in ui.pending
    /\ p.kind = "progress"
    /\ IF ~a.ok \/ p.effect \in ui.cancelled
       THEN ui' = [ui EXCEPT !.pending = @ \ {p}, !.lastPoll = Handled(p, a)]
       ELSE LET seen == [ui EXCEPT
                           !.pending = @ \ {p},
                           !.lastPoll = Handled(p, a),
                           !.processingProgress = a.progress,
                           !.processingStage =
                               Ed_mapServerStageToProcessing(a.stage, a.status)]
            IN  ui' = PollEffect(ui,
                        IF a.status = "analyzed"
                        THEN [seen EXCEPT !.processingStage = "render",
                                          !.step = "editor", !.isProcessing = FALSE]
                        ELSE IF a.status = "ready"
                        THEN [seen EXCEPT !.processingProgress = 100,
                                          !.processingStage = "completed",
                                          !.isProcessing = FALSE, !.step = "preview"]
                        ELSE IF a.status = "error"
                        THEN [seen EXCEPT !.processingStage = "error",
                                          !.isProcessing = FALSE, !.step = "input"]
                        ELSE seen)
    /\ UiFrame

\* TimelineEditor calls onConfirm: the setters, then the compile-final
\* request leaves
Ed_handleEditorConfirm ==
    /\ ui.page = "editor"
    /\ ui.step = "editor"
    /\ ui.events < MaxUiEvents
    /\ ui' = PollEffect(ui,
                [ui EXCEPT !.isProcessing = TRUE, !.step = "processing",
                           !.pending = @ \cup {[id |-> ui.nextId, kind |-> "compileFinal"]},
                           !.nextId = @ + 1, !.events = @ + 1])
    /\ UiFrame

\* the compile-final answer: nothing more when ok, else the catch block
Ed_CompileResponse(p, ok) ==
    /\ ui.page = "editor"
    /\ p \in ui.pending
    /\ p.kind = "compileFinal"
    /\ ui' = PollEffect(ui,
                IF ok
                THEN [ui EXCEPT !.pending = @ \ {p}]
                ELSE [ui EXCEPT !.pending = @ \ {p}, !.step = "editor"])
    /\ UiFrame

\* TimelineEditor calls onCancel
Ed_onCancel ==
    /\ ui.page = "editor"
    /\ ui.step = "editor"
    /\ ui.events < MaxUiEvents
    /\ ui' = PollEffect(ui, [ui EXCEPT !.step = "input", !.events = @ + 1])
    /\ UiFrame

\* the New Compilation button of step 'preview'
Ed_NewCompilation ==
    /\ ui.page = "editor"
    /\ ui.step = "preview"
    /\ ui.events < MaxUiEvents
    /\ ui' = PollEffect(ui,
                [ui EXCEPT !.step = "input", !.videos = <<>>, !.sessionId = 0,
                           !.processingProgress = 0, !.processingStage = "idle",
                           !.events = @ + 1])
    /\ UiFrame

EdNext ==
    \/ ui.events < MaxUiEvents /\ handleAddVideos
    \/ \E p \in ui.pending, ok \in BOOLEAN : DetectResponse(p, ok)
    \/ Ed_handleGenerate
    \/ \E p \in ui.pending, ok \in BOOLEAN : Ed_AnalyzeResponse(p, ok)
    \/ \E i \in ui.intervals : ui.page = "editor" /\ PollTick(i)
    \/ \E p \in ui.pending, a \in EdAnswers : Ed_ProgressResponse(p, a)
    \/ Ed_handleEditorConfirm
    \/ \E p \in ui.pending, ok \in BOOLEAN : Ed_CompileResponse(p, ok)
    \/ Ed_onCancel
    \/ Ed_NewCompilation

\* C28: in the editor variant isProcessing is true only while the step is
\* 'processing', also after a compile-final request that failed.
C28_ProcessingOnlyInProcessingStep ==
    ui.isProcessing => ui.step = "processing"

\* ---------------------------------------------------------------------------
\* Home of page.tsx
\* ---------------------------------------------------------------------------

\* added and removed are history: the ids of the videos that successful
\* detect-video answers brought, and of those the user removed
PgHome ==
    [page |-> "page", step |-> "input", isProcessing |-> FALSE, sessionId |-> 0,
     processingProgress |-> 0, processingStage |-> "idle", videos |-> <<>>,
     effect |-> 0, cancelled |-> {}, intervals |-> {}, progressPollRef |-> 0,
     pending |-> {}, nextId |-> 1, events |-> 0, polls |-> 0,
     lastPoll |-> [id |-> 0, status |-> "none", cancelled |-> FALSE],
     added |-> {}, removed |-> {}]

PgAnswers ==
    { [ok |-> FALSE],
      [ok |-> TRUE, status |-> "queued", progress |-> 0, stage |-> "Initialisation"],
      [ok |-> TRUE, status |-> "processing", progress |-> 50, stage |-> "Analyse"],
      [ok |-> TRUE, status |-> "ready", progress |-> 100, stage |-> "Compilation terminée"],
      [ok |-> TRUE, status |-> "error", progress |-> 50, stage |-> "Analyse"] }

mapServerStageToProcessing(stageLabel, status) ==
    IF status = "queued" THEN "detect"
    ELSE IF status = "ready" THEN "completed"
    ELSE IF status = "error" THEN "error"
    ELSE IF stageLabel = "Analyse" THEN "highlights"
    ELSE IF stageLabel = "Compilation terminée" THEN "completed"
    ELSE "detect"

\* videos.filter(v => v.id !== id)
WithoutVideo(videos, id) == SelectSeq(videos, LAMBDA v : v # id)

\* VideoPreview calls onRemoveVideo(id)
Pg_handleRemoveVideo(id) ==
    /\ ui.page = "page"
    /\ ui.step = "input"
    /\ \E k \in 1..Len(ui.videos) : ui.videos[k] = id
    /\ ui.events < MaxUiEvents
    /\ ui' = [ui EXCEPT !.videos = WithoutVideo(@, id),
                        !.removed = @ \cup {id},
                        !.events = @ + 1]
    /\ UiFrame

\* the Generate button: the setters, then the process-video request leaves
Pg_handleGenerate ==
    /\ ui.page = "page"
    /\ Len(ui.videos) > 0
    /\ ~ui.isProcessing
    /\ ui.events < MaxUiEvents
    /\ ui' = PollEffect(ui,
                [ui EXCEPT !.isProcessing = TRUE, !.step = "processing",
                           !.processingProgress = 0, !.processingStage = "detect",
                           !.sessionId = 0,
                           !.pending = @ \cup {[id |-> ui.nextId, kind |-> "processVideo"]},
                           !.nextId = @ + 1, !.events = @ + 1])
    /\ UiFrame

\* the process-video answer: setSessionId(data.sessionId), or the catch block
Pg_ProcessResponse(p, ok) ==
    /\ ui.page = "page"
    /\ p \in ui.pending
    /\ p.kind = "processVideo"
    /\ ui' = PollEffect(ui,
                IF ok
                THEN [ui EXCEPT !.pending = @ \ {p}, !.sessionId = p.id]
                ELSE [ui EXCEPT !.pending = @ \ {p}, !.isProcessing = FALSE,
                                !.step = "input", !.processingStage = "error"])
    /\ UiFrame

\* a continuation of fetchProgress without the `if (cancelled) return`
Pg_ProgressResponseUncancelled(p, a) ==
    /\ ui.page = "page"
    /\ p \in ui.pending
    /\ p.kind = "progress"
    /\ IF ~a.ok
       THEN ui' = [ui EXCEPT !.pending = @ \ {p}, !.lastPoll = Handled(p, a)]
       ELSE LET seen == [ui EXCEPT
                           !.pending = @ \ {p},
                           !.lastPoll = Handled(p, a),
                           !.processingProgress = a.progress,
                           !.processingStage =
                               mapServerStageToProcessing(a.stage, a.status)]
            IN  ui' = PollEffect(ui,
                        IF a.status = "ready"
                        THEN [seen EXCEPT !.processingProgress = 100,
                                          !.processingStage = "completed",
                                          !.isProcessing = FALSE, !.step = "preview"]
                        ELSE IF a.status = "error"
                        THEN [seen EXCEPT !.processingStage = "error",
                                          !.isProcessing = FALSE, !.step = "input"]
                        ELSE seen)
    /\ UiFrame

\* the continuation of fetchProgress
Pg_ProgressResponse(p, a) ==
    /\ ui.page = "page"
    /\ p \in ui.pending
    /\ p.kind = "progress"
    /\ IF ~a.ok \/ p.effect \in ui.cancelled
       THEN ui' = [ui EXCEPT !.pending = @ \ {p}, !.lastPoll = Handled(p, a)]
       ELSE LET seen == [ui EXCEPT
                           !.pending = @ \ {p},
                           !.lastPoll = Handled(p, a),
                           !.processingProgress = a.progress,
                           !.processingStage =
                               mapServerStageToProcessing(a.stage, a.status)]
            IN  ui' = PollEffect(ui,
                        IF a.status = "ready"
                        THEN [seen EXCEPT !.processingProgress = 100,
                                          !.processingStage = "completed",
                                          !.isProcessing = FALSE, !.step = "preview"]
                        ELSE IF a.status = "error"
                        THEN [seen EXCEPT !.processingStage = "error",
                                          !.isProcessing = FALSE, !.step = "input"]
                        ELSE seen)
    /\ UiFrame

PgNext ==
    \/ ui.events < MaxUiEvents /\ handleAddVideos
    \/ \E p \in ui.pending, ok \in BOOLEAN : DetectResponse(p, ok)
    \/ \E id \in 1..ui.nextId : Pg_handleRemoveVideo(id)
    \/ Pg_handleGenerate
    \/ \E p \in ui.pending, ok \in BOOLEAN : Pg_ProcessResponse(p, ok)
    \/ \E i \in ui.intervals : ui.page = "page" /\ PollTick(i)
    \/ \E p \in ui.pending, a \in PgAnswers : Pg_ProgressResponse(p, a)

\* both pages with the polling effect
PollInit == ServerInit /\ ui \in {EdHome, PgHome}

PollNext == EdNext \/ PgNext

SpecPoll == PollInit /\ [][PollNext]_vars

\* C27: once no detect-video request is pending, every video that a
\* successful answer brought and that was not removed is in the list, and no
\* removed video is in the list at any time.
C27_NoLostUpdate ==
    ui.page = "page" =>
    /\ (~\E p \in ui.pending : p.kind = "detectVideo")
          => \A id \in ui.added \ ui.removed : \E k \in 1..Len(ui.videos) : ui.videos[k] = id
    /\ \A id \in ui.removed : ~\E k \in 1..Len(ui.videos) : ui.videos[k] = id

\* the progress requests that a step sends
NewPolls == { p \in ui'.pending \ ui.pending : p.kind = "progress" }

\* a step that handles the answer of a progress request
PollHandled == ui'.lastPoll # ui.lastPoll

StopStatuses == {"ready", "analyzed", "error"}

S4Init ==
    /\ ServerInit
    /\ ui = [page |-> "sim4", step |-> "input", isProcessing |-> FALSE, sessionId |-> 0,
     processingProgress |-> 0, processingStage |-> "idle", videos |-> <<>>,
     intervals |-> {}, pending |-> {}, nextId |-> 1, events |-> 0, ticks |-> 0,
     ended |-> "none", added |-> {}, removed |-> {}]

S4_deriveStageFromProgress(value) ==
    IF value < 20 * RandDen THEN "detect"
    ELSE IF value < 55 * RandDen THEN "download"
    ELSE IF value < 80 * RandDen THEN "highlights"
    ELSE IF value < 95 * RandDen THEN "render"
    ELSE "finalize"

\* the Generate button: the setters, setInterval, then the process-video
\* request leaves; progressInterval is a local of the try block
S4_handleGenerate ==
    /\ ui.page = "sim4"
    /\ Len(ui.videos) > 0
    /\ ~ui.isProcessing
    /\ ui.events < MaxUiEvents
    /\ ui' = [ui EXCEPT !.isProcessing = TRUE, !.step = "processing",
                        !.processingProgress = 0, !.processingStage = "detect",
                        !.intervals = @ \cup {[id |-> ui.nextId + 1]},
                        !.pending = @ \cup {[id |-> ui.nextId, kind |-> "processVideo",
                                             progressInterval |-> ui.nextId + 1]},
                        !.nextId = @ + 2, !.events = @ + 1,
                        !.ended = "none"]
    /\ UiFrame

\* the interval callback: progress advances by Math.random() * 18 up to 95
\* and the stage follows the progress
S4_ProgressTick(i, k) ==
    /\ ui.page = "sim4"
    /\ i \in ui.intervals
    /\ ui.ticks < MaxTicks
    /\ LET nextValue == Min(ui.processingProgress + k * 18, 95 * RandDen)
       IN  ui' = [ui EXCEPT !.processingProgress = nextValue,
                            !.processingStage = S4_deriveStageFromProgress(nextValue),
                            !.ticks = @ + 1]
    /\ UiFrame

\* the catch block of handleGenerate
S4_catch(u) ==
    [u EXCEPT !.isProcessing = FALSE, !.step = "input", !.processingStage = "error",
              !.ended = "failure"]

\* the await of fetch ends: a rejected fetch goes straight to the catch block;
\* an answer clears the interval, then either throws (not ok) or sets the
\* stage 'finalize' and awaits response.json()
S4_ProcessResponse(p, outcome) ==
    /\ ui.page = "sim4"
    /\ p \in ui.pending
    /\ p.kind = "processVideo"
    /\ ui' = IF outcome = "networkError"
             THEN S4_catch([ui EXCEPT !.pending = @ \ {p}])
             ELSE IF outcome = "httpError"
             THEN S4_catch([ui EXCEPT !.pending = @ \ {p},
                                      !.intervals = clearInterval(@, p.progressInterval)])
             ELSE [ui EXCEPT !.pending = (@ \ {p}) \cup {[id |-> p.id, kind |-> "json"]},
                             !.intervals = clearInterval(@, p.progressInterval),
                             !.processingStage = "finalize"]
    /\ UiFrame

\* the await of response.json() ends: the result is shown, or the catch block
S4_JsonDone(p, ok) ==
    /\ ui.page = "sim4"
    /\ p \in ui.pending
    /\ p.kind = "json"
    /\ ui' = IF ok
             THEN [ui EXCEPT !.pending = @ \ {p},
                             !.processingProgress = 100 * RandDen,
                             !.processingStage = "completed",
                             !.isProcessing = FALSE, !.step = "preview",
                             !.sessionId = p.id, !.ended = "success"]
             ELSE S4_catch([ui EXCEPT !.pending = @ \ {p}])
    /\ UiFrame

S4Next ==
    \/ ui.events < MaxUiEvents /\ handleAddVideos
    \/ \E p \in ui.pending, ok \in BOOLEAN : DetectResponse(p, ok)
    \/ S4_handleGenerate
    \/ \E i \in ui.intervals, k \in {0, RandDen \div 2, RandDen - 1} : S4_ProgressTick(i, k)
    \/ \E p \in ui.pending, outcome \in {"ok", "httpError", "networkError"} : S4_ProcessResponse(p, outcome)
    \/ \E p \in ui.pending, ok \in BOOLEAN : S4_JsonDone(p, ok)

SpecSim == S4Init /\ [][S4Next]_vars

\* C29: a progress interval is active only while the process-video request
\* of the handleGenerate call that started it is pending; and after
\* handleGenerate has ended in failure no step changes processingProgress
\* until Generate is clicked again, and processingStage is 'error'.
C29_TimerStoppedInEveryOutcome ==
    /\ [](\A i \in ui.intervals :
             \E p \in ui.pending : p.kind = "processVideo" /\ p.progressInterval = i.id)
    /\ [](ui.ended = "failure" => ui.processingStage = "error")
    /\ [][(ui.ended = "failure" /\ ui'.ended = "failure")
             => ui'.processingProgress = ui.processingProgress]_vars

\* ---------------------------------------------------------------------------
\* TimelineEditor.  activeClipIndex counts from 0 as in the source, so the
\* active moment moments[activeClipIndex] is moments[activeClipIndex + 1]
\* here.  removed and calls are history: whether a clip was removed, and the
\* calls made to the props onConfirm and onCancel.
\* ---------------------------------------------------------------------------

\* the initialMoments the page can pass (bestMoments, data.moments || [])
InitialMoments ==
    { <<>>,
      <<[id |-> 1, start |-> 0, end |-> 5]>>,
      <<[id |-> 1, start |-> 0, end |-> 5], [id |-> 2, start |-> 10, end |-> 15],
        [id |-> 3, start |-> 20, end |-> 25]>> }

TimelineEditor(initialMoments) ==
    [page |-> "timeline", moments |-> initialMoments, activeClipIndex |-> 0,
     removed |-> FALSE, calls |-> <<>>, events |-> 0]

\* const activeMoment = moments[activeClipIndex] is defined
HasActiveMoment(u) ==
    u.activeClipIndex >= 0 /\ u.activeClipIndex < Len(u.moments)

\* newMoments.splice(index, 1)
Splice1(moments, index) ==
    [k \in 1..(Len(moments) - 1) |-> IF k <= index THEN moments[k] ELSE moments[k + 1]]

\* handleRemove that leaves activeClipIndex alone
handleRemoveKeepingIndex(u, index) ==
    [u EXCEPT !.moments = Splice1(u.moments, index), !.removed = TRUE]

handleRemove(u, index) ==
    LET newMoments == Splice1(u.moments, index)
    IN  [u EXCEPT !.moments = newMoments,
                  !.removed = TRUE,
                  !.activeClipIndex =
                      IF index = u.activeClipIndex /\ Len(newMoments) > 0
                      THEN Max(0, index - 1)
                      ELSE IF Len(newMoments) = 0 THEN -1
                      ELSE @]

handleUpdateDuration(u, index, newRange) ==
    [u EXCEPT !.moments[index + 1] =
                 [id |-> @.id, start |-> newRange[1], end |-> newRange[2]]]

TEOpen == ui.page = "timeline" /\ ui.calls = <<>> /\ ui.events < MaxUiEvents

\* a TimelineItem is clicked: setActiveClipIndex(index)
TE_Select(index) ==
    /\ TEOpen
    /\ index \in 0..(Len(ui.moments) - 1)
    /\ ui' = [ui EXCEPT !.activeClipIndex = index, !.events = @ + 1]
    /\ UiFrame

\* the Remove Clip button, shown with an active moment
TE_RemoveClip ==
    /\ TEOpen
    /\ HasActiveMoment(ui)
    /\ ui' = [handleRemove(ui, ui.activeClipIndex) EXCEPT !.events = @ + 1]
    /\ UiFrame

\* the trim slider, shown with an active moment
TE_Trim(newRange) ==
    /\ TEOpen
    /\ HasActiveMoment(ui)
    /\ ui' = [handleUpdateDuration(ui, ui.activeClipIndex, newRange)
                 EXCEPT !.events = @ + 1]
    /\ UiFrame

\* Reorder.Group reports a drag: onReorder={setMoments} with two neighbours
\* exchanged
TE_Reorder(k) ==
    /\ TEOpen
    /\ k \in 1..(Len(ui.moments) - 1)
    /\ ui' = [ui EXCEPT !.moments = [@ EXCEPT ![k] = ui.moments[k + 1],
                                              ![k + 1] = ui.moments[k]],
                        !.events = @ + 1]
    /\ UiFrame

\* the Export Video button, disabled when moments is empty
TE_Export ==
    /\ TEOpen
    /\ Len(ui.moments) # 0
    /\ ui' = [ui EXCEPT !.calls = Append(@, [prop |-> "onConfirm",
                                             moments |-> ui.moments]),
                        !.events = @ + 1]
    /\ UiFrame

\* the Cancel Editing button
TE_Cancel ==
    /\ TEOpen
    /\ ui' = [ui EXCEPT !.calls = Append(@, [prop |-> "onCancel"]),
                        !.events = @ + 1]
    /\ UiFrame

TEInit == ServerInit /\ \E initialMoments \in InitialMoments :
                            ui = TimelineEditor(initialMoments)

TENext ==
    \/ \E index \in 0..2 : TE_Select(index)
    \/ TE_RemoveClip
    \/ \E newRange \in {<<1, 4>>} : TE_Trim(newRange)
    \/ \E k \in 1..2 : TE_Reorder(k)
    \/ TE_Export
    \/ TE_Cancel

SpecTE == TEInit /\ [][TENext]_vars

\* C30: activeClipIndex is an index of moments whenever moments is not
\* empty, it is -1 once removals have emptied the list, and onConfirm is
\* never called with an empty list.
C30_ActiveClipIndexValid ==
    /\ Len(ui.moments) > 0 => HasActiveMoment(ui)
    /\ (Len(ui.moments) = 0 /\ ui.removed) => ui.activeClipIndex = -1
    /\ \A c \in 1..Len(ui.calls) :
          ui.calls[c].prop = "onConfirm" => Len(ui.calls[c].moments) > 0

\* removals have emptied the list
C30_Witness ==
    ui.page = "timeline" /\ ui.removed /\ Len(ui.moments) = 0 /\ ui.activeClipIndex = -1

====
